---------------------------- MODULE Spec2Model ----------------------------
(***************************************************************************)
(* A model of the procedural terrain editor: the noise field, the height   *)
(* synthesizer, the spherical mesh builder (src/src/terrain.rs) and the    *)
(* frame loop that regenerates and draws the terrain (src/src/main.rs,     *)
(* src/src/input.rs).                                                      *)
(*                                                                         *)
(* Numbers.  An f32 is modelled as an integer count of thousandths         *)
(* (One = 1000 stands for 1.0); every decimal literal of the source is     *)
(* exact in that unit.  A product or quotient is rounded to the nearest    *)
(* thousandth where f32 rounds to the nearest representable value.  A u32  *)
(* is a pair <<hi, lo>> of 16-bit halves, so that the wrapping 32-bit      *)
(* arithmetic of hash3 keeps its width.                                    *)
(***************************************************************************)
EXTENDS Integers, Sequences, FiniteSets, TLC

(***************************************************************************)
(* Fixed-point arithmetic standing for f32 arithmetic.                     *)
(***************************************************************************)
One == 10 ^ 3

\* The decimal literal n/d.
Dec(n, d) == (n * One) \div d

Abs(a) == IF a < 0 THEN -a ELSE a

Max(a, b) == IF a > b THEN a ELSE b

Min(a, b) == IF a < b THEN a ELSE b

\* n / d rounded to the nearest integer (d > 0).
RoundDiv(n, d) == (n + (d \div 2)) \div d

\* f32 a * b.
Mul(a, b) == RoundDiv(a * b, One)

\* f32 a / b, for b > 0.
Div(a, b) == RoundDiv(a * One, b)

\* f32::clamp.
Clamp(v, lo, hi) == IF v < lo THEN lo ELSE IF v > hi THEN hi ELSE v

\* F applied to the value of v: the argument is evaluated first, as a Rust
\* argument is (call by value).
Bind(v, F(_)) == CHOOSE r \in {F(w) : w \in {v}} : TRUE

\* f32::floor followed by `as i32`.
Floor(a) == a \div One

\* glam Vec3 operations.
VAdd(a, b) == <<a[1] + b[1], a[2] + b[2], a[3] + b[3]>>

VSub(a, b) == <<a[1] - b[1], a[2] - b[2], a[3] - b[3]>>

VScale(a, s) == <<Mul(a[1], s), Mul(a[2], s), Mul(a[3], s)>>

VSplat(s) == <<s, s, s>>

VZero == <<0, 0, 0>>

VMaxAbs(a) == Max(Abs(a[1]), Max(Abs(a[2]), Abs(a[3])))

\* Integer square root, by bisection on [lo, hi].
RECURSIVE ISqrtIn(_, _, _)
ISqrtIn(n, lo, hi) ==
  IF lo >= hi THEN lo
  ELSE LET mid == (lo + hi + 1) \div 2
       IN IF mid * mid <= n THEN ISqrtIn(n, mid, hi) ELSE ISqrtIn(n, lo, mid - 1)

ISqrt(n) == ISqrtIn(n, 0, 46340)

\* The power of two that brings the largest component of a into
\* [2^13, 2^14), as <<numerator, denominator>>: the squares of the scaled
\* components then fit the integer width, as those of an f32 fit its
\* exponent range.
RECURSIVE PreScale(_, _, _)
PreScale(m, num, den) ==
  IF m * num >= 16384 * den THEN PreScale(m, num, den * 2)
  ELSE IF m * num < 8192 * den /\ den > 1 THEN PreScale(m, num, den \div 2)
  ELSE IF m * num < 8192 * den THEN PreScale(m, num * 2, den)
  ELSE <<num, den>>

\* a scaled by s[1] / s[2].
VRescale(a, s) ==
  <<(a[1] * s[1]) \div s[2], (a[2] * s[1]) \div s[2], (a[3] * s[1]) \div s[2]>>

VPreScaled(a) == VRescale(a, PreScale(VMaxAbs(a), 1, 1))

\* a / len, componentwise.
VDivide(a, len) ==
  <<RoundDiv(a[1] * One, len), RoundDiv(a[2] * One, len), RoundDiv(a[3] * One, len)>>

\* a / a.length(), for a nonzero a whose squares fit the integer width.
VUnit(a) == VDivide(a, ISqrt(a[1] * a[1] + a[2] * a[2] + a[3] * a[3]))

\* glam Vec3::length_squared() > 0.0.
VNonZero(a) == a # VZero

\* glam Vec3::normalize_or_zero: the unit vector, or zero for a zero input.
NormalizeOrZero(a) == IF a = VZero THEN VZero ELSE VUnit(VPreScaled(a))

\* glam Vec3::cross, of the directions of a and b (its length is used
\* only through normalize_or_zero).
CrossOf(p, q) ==
  <<p[2] * q[3] - p[3] * q[2], p[3] * q[1] - p[1] * q[3],
    p[1] * q[2] - p[2] * q[1]>>

Cross(a, b) ==
  CrossOf(IF a = VZero THEN a ELSE VPreScaled(a),
          IF b = VZero THEN b ELSE VPreScaled(b))

(***************************************************************************)
(* Wrapping u32 arithmetic on <<hi, lo>> halves.                           *)
(***************************************************************************)
\* a ^ b on the low k bits, bit by bit.
RECURSIVE XorBits(_, _, _)
XorBits(a, b, k) ==
  IF k = 0 THEN 0
  ELSE ((a + b) % 2) + 2 * XorBits(a \div 2, b \div 2, k - 1)

\* a ^ b for 4-bit a, b, tabulated.
XorNibble == [a \in 0..15 |-> [b \in 0..15 |-> XorBits(a, b, 4)]]

\* a ^ b on the low k hexadecimal digits.
RECURSIVE XorDigits(_, _, _)
XorDigits(a, b, k) ==
  IF k = 0 THEN 0
  ELSE XorNibble[a % 16][b % 16] + 16 * XorDigits(a \div 16, b \div 16, k - 1)

Xor16(a, b) == XorDigits(a, b, 4)

\* a ^ b
Xor32(a, b) == <<Xor16(a[1], b[1]), Xor16(a[2], b[2])>>

\* (a * b) mod 2^16 for 16-bit a, b.
MulMod16(a, b) == (a * (b % 256) + ((a * (b \div 256)) % 256) * 256) % 65536

\* u32::wrapping_mul
WrappingMul(a, c) ==
  LET p0    == a[2] * (c[2] % 256)
      p1    == a[2] * (c[2] \div 256)
      low   == p0 + (p1 % 256) * 256
      carry == (low \div 65536) + (p1 \div 256)
  IN <<(carry + MulMod16(a[2], c[1]) + MulMod16(a[1], c[2])) % 65536,
       low % 65536>>

\* `i as u32` for an i32 i (two's complement).
AsU32(i) == <<(i \div 65536) % 65536, i % 65536>>

\* n >> 13 and n >> 16
Shr13(n) == <<n[1] \div 8192, (n[1] % 8192) * 8 + (n[2] \div 8192)>>

Shr16(n) == <<0, n[1]>>

(***************************************************************************)
(* Program constants (src/src/terrain.rs, src/src/water.rs).               *)
(***************************************************************************)
\* The grid resolution: 256 in the program, small here.
GRID == 4

LON_POINTS == GRID + 1

LAT_POINTS == GRID

WORLD_RADIUS == 100 * One

HEIGHT_AMPLITUDE == 10 * One

WATER_LEVEL == 0 * One

CONTINENT_FREQ == One

HILL_FREQ == Dec(82, 10)

MOUNTAIN_FREQ == Dec(102, 10)

DETAIL_FREQ == 19 * One

WARP_FREQ == Dec(75, 100)

MOISTURE_FREQ == Dec(8, 10)

SEA_THRESHOLD == Dec(3, 10)

(***************************************************************************)
(* NoiseField: hash3, sample_noise_3d, fbm, ridged_fbm, warp_dir.          *)
(***************************************************************************)
\* The multipliers 73856093, 19349663, 83492791 and 1274126177 of hash3.
HashMulX == <<1126, 62557>>

HashMulY == <<295, 16543>>

HashMulZ == <<1273, 65463>>

HashMulMix == <<19441, 40801>>

\* The integer n of hash3 after the avalanche mix.
\* n = (n ^ (n >> 13)).wrapping_mul(1274126177)
HashMix(n) == WrappingMul(Xor32(n, Shr13(n)), HashMulMix)

\* n ^= n >> 16
HashFold(n) == Xor32(n, Shr16(n))

Hash3Bits(x, y, z, seed) ==
  HashFold(HashMix(Xor32(Xor32(Xor32(WrappingMul(AsU32(x), HashMulX),
                                     WrappingMul(AsU32(y), HashMulY)),
                               WrappingMul(AsU32(z), HashMulZ)),
                         seed)))

\* The conversion without the - 1.0: a variant the signed unit range is
\* tested against.
U32ToUnsignedUnit(n) ==
  RoundDiv(n[1] * 2 * One + ((n[2] * 2 * One) \div 65536), 65536)

\* (n as f32 / u32::MAX as f32) * 2.0 - 1.0, u32::MAX as f32 being 2^32.
U32ToSignedUnit(n) ==
  RoundDiv(n[1] * 2 * One + ((n[2] * 2 * One) \div 65536), 65536) - One

hash3(x, y, z, seed) == U32ToSignedUnit(Hash3Bits(x, y, z, seed))

lerp(a, b, t) == a + Mul(b - a, t)

\* The seven lerps of sample_noise_3d; c[i, j, k] is the corner value
\* c_ijk, that is hash3 at (x0 + i, y0 + j, z0 + k).
Trilinear(c, tx, ty, tz) ==
  lerp(lerp(lerp(c[0, 0, 0], c[1, 0, 0], tx), lerp(c[0, 1, 0], c[1, 1, 0], tx), ty),
       lerp(lerp(c[0, 0, 1], c[1, 0, 1], tx), lerp(c[0, 1, 1], c[1, 1, 1], tx), ty),
       tz)

sample_noise_3d(x, y, z, seed) ==
  Trilinear([i \in 0..1, j \in 0..1, k \in 0..1 |->
               hash3(Floor(x) + i, Floor(y) + j, Floor(z) + k, seed)],
            x - Floor(x) * One, y - Floor(y) * One, z - Floor(z) * One)

(***************************************************************************)
(* sample_noise_3d over the whole f32 range.  A wide coordinate            *)
(* <<hi, lo, frac>> is the f32 value hi * 65536 + lo + frac / 1000, with   *)
(* lo in 0..65535 and frac in 0..999.                                      *)
(***************************************************************************)
I32Max == 2147483647

I32Min == -I32Max - 1

\* The wide coordinate of a value in thousandths.
WideOf(v) == <<Floor(v) \div 65536, Floor(v) % 65536, v - Floor(v) * One>>

\* x.floor() as i32: the cast saturates.
FloorAsI32(c) ==
  IF c[1] >= 32768 THEN I32Max
  ELSE IF c[1] < -32768 THEN I32Min
  ELSE c[1] * 65536 + c[2]

\* x0 + 1 in i32.  It overflows for i32::MAX: with overflow checks the
\* program panics, without them the sum wraps to i32::MIN.
AddOne(i) ==
  [overflowed |-> i = I32Max, value |-> IF i = I32Max THEN I32Min ELSE i + 1]

\* x0 as f32, as <<hi, lo>>.  The floor of an f32 within the i32 range is
\* an f32, so the cast is exact but for the saturated i32::MAX, which
\* rounds to 2^31.
I32AsF32(i) == IF i = I32Max THEN <<32768, 0>> ELSE <<i \div 65536, i % 65536>>

\* tx = x - x0 as f32
Fract(c, x0) ==
  ((c[1] - I32AsF32(x0)[1]) * 65536 + (c[2] - I32AsF32(x0)[2])) * One + c[3]

\* sample_noise_3d on wide coordinates: whether an addition overflowed,
\* whether the call panicked, and <<the value returned>> if it returned.
SampleNoiseChecked(x, y, z, seed, overflow_checks) ==
  LET x0 == FloorAsI32(x)
      y0 == FloorAsI32(y)
      z0 == FloorAsI32(z)
      x1 == AddOne(x0)
      y1 == AddOne(y0)
      z1 == AddOne(z0)
      overflowed == x1.overflowed \/ y1.overflowed \/ z1.overflowed
  IN IF overflowed /\ overflow_checks
     THEN [overflowed |-> TRUE, panicked |-> TRUE, value |-> <<>>]
     ELSE [overflowed |-> overflowed, panicked |-> FALSE,
           value |-> <<Trilinear([i \in 0..1, j \in 0..1, k \in 0..1 |->
                                   hash3(IF i = 0 THEN x0 ELSE x1.value,
                                         IF j = 0 THEN y0 ELSE y1.value,
                                         IF k = 0 THEN z0 ELSE z1.value, seed)],
                                Fract(x, x0), Fract(y, y0), Fract(z, z0))>>]

\* The octave loop of fbm; st is <<amp, freq, sum, norm>>.
RECURSIVE FbmLoop(_, _, _, _, _, _)
FbmLoop(pos, seed, octaves, lacunarity, gain, st) ==
  IF octaves = 0 THEN st
  ELSE LET p == VScale(pos, st[2])
           Rest(next) == FbmLoop(pos, seed, octaves - 1, lacunarity, gain, next)
       IN Bind(<<Mul(st[1], gain), Mul(st[2], lacunarity),
                 st[3] + Mul(sample_noise_3d(p[1], p[2], p[3], seed), st[1]),
                 st[4] + st[1]>>, Rest)

\* sum / norm
SumOverNorm(st) == Div(st[3], st[4])

fbm(pos, seed, octaves, lacunarity, gain) ==
  SumOverNorm(FbmLoop(pos, seed, octaves, lacunarity, gain, <<One, One, 0, 0>>))

\* The octave loop of ridged_fbm; st is <<amp, freq, sum, norm>>.
RECURSIVE RidgedLoop(_, _, _, _, _, _)
RidgedLoop(pos, seed, octaves, lacunarity, gain, st) ==
  IF octaves = 0 THEN st
  ELSE LET p     == VScale(pos, st[2])
           n     == One - Abs(sample_noise_3d(p[1], p[2], p[3], seed))
           ridge == Mul(n, n)
           Rest(next) == RidgedLoop(pos, seed, octaves - 1, lacunarity, gain, next)
       IN Bind(<<Mul(st[1], gain), Mul(st[2], lacunarity),
                 st[3] + Mul(ridge, st[1]), st[4] + st[1]>>, Rest)

ridged_fbm(pos, seed, octaves, lacunarity, gain) ==
  Clamp(SumOverNorm(RidgedLoop(pos, seed, octaves, lacunarity, gain,
                               <<Dec(5, 10), One, 0, 0>>)), 0, One)

\* seed ^ 0x27d4 and seed ^ 0x1656: the seeds of the second and third
\* warp layer.
WarpSeedY(seed) == Xor32(seed, <<0, 10196>>)

WarpSeedZ(seed) == Xor32(seed, <<0, 5718>>)

warp_dir(dir, seed) ==
  LET wx == fbm(VScale(dir, WARP_FREQ), seed, 3, 2 * One, Dec(5, 10))
      wy == fbm(VAdd(VScale(dir, WARP_FREQ), VSplat(Dec(127, 10))),
                WarpSeedY(seed), 3, 2 * One, Dec(5, 10))
      wz == fbm(VAdd(VScale(dir, WARP_FREQ), VSplat(Dec(314, 10))),
                WarpSeedZ(seed), 3, 2 * One, Dec(5, 10))
  IN VScale(<<wx, wy, wz>>, Dec(35, 100))

smoothstep(edge0, edge1, x) ==
  LET t == Clamp(Div(x - edge0, edge1 - edge0), 0, One)
  IN Mul(Mul(t, t), 3 * One - 2 * t)

\* remap01 without its clamp and offset: a variant the moisture range is
\* tested against.
remap01Unclamped(v) == Mul(v, Dec(5, 10))

remap01(v) == Clamp(Mul(v, Dec(5, 10)) + Dec(5, 10), 0, One)

\* f32::powf(1.35) on [0, 1.3]: x^1.35 at the multiples of 0.05, joined by
\* straight lines.
Pow135Table ==
  <<0, 18, 45, 77, 114, 154, 197, 242, 290, 340, 392, 446, 502, 559, 618,
    678, 740, 803, 867, 933, 1000, 1068, 1137, 1208, 1279, 1352, 1425>>

Pow135(x) ==
  LET i == x \div 50
      r == x % 50
  IN IF i >= 26 THEN Pow135Table[27]
     ELSE Pow135Table[i + 1]
            + RoundDiv((Pow135Table[i + 2] - Pow135Table[i + 1]) * r, 50)

(***************************************************************************)
(* HeightSynthesizer: height_for_dir.                                      *)
(***************************************************************************)
\* The second continent layer using the continent seed itself: a variant
\* the derived seeds are tested against.
ContinentSeedSame(continent_seed) == continent_seed

\* continent_seed ^ 0x9e37 and moisture_seed ^ 0x85eb: the seeds of the
\* second continent layer and of the second moisture layer.
ContinentSeedB(continent_seed) == Xor32(continent_seed, <<0, 40503>>)

MoistureSeedB(moisture_seed) == Xor32(moisture_seed, <<0, 34283>>)

\* The seven noise samples height_for_dir takes at the warped direction.
NoiseSamples(dir, continent_seed, hill_seed, mountain_seed, detail_seed, moisture_seed, warp_seed) ==
  LET At(warped) ==
        [continent_a |-> fbm(VScale(warped, CONTINENT_FREQ), continent_seed,
                             5, Dec(205, 100), Dec(5, 10)),
         continent_b |-> fbm(VScale(warped, Mul(CONTINENT_FREQ, Dec(5, 10))),
                             ContinentSeedB(continent_seed),
                             3, Dec(22, 10), Dec(5, 10)),
         hills       |-> fbm(VScale(warped, HILL_FREQ), hill_seed,
                             4, Dec(21, 10), Dec(5, 10)),
         ridges      |-> ridged_fbm(VScale(warped, MOUNTAIN_FREQ), mountain_seed,
                                    4, 2 * One, Dec(5, 10)),
         detail      |-> fbm(VScale(warped, DETAIL_FREQ), detail_seed,
                             3, Dec(24, 10), Dec(55, 100)),
         moisture_a  |-> fbm(VScale(warped, MOISTURE_FREQ), moisture_seed,
                             4, 2 * One, Dec(5, 10)),
         moisture_b  |-> fbm(VScale(warped, Dec(25, 100)),
                             MoistureSeedB(moisture_seed),
                             2, 2 * One, Dec(5, 10))]
  IN Bind(NormalizeOrZero(VAdd(dir, warp_dir(dir, warp_seed))), At)

\* The land branch with the ridges weighted by 1.0 instead of 0.9: a variant
\* the elevation bound is tested against.
LandHeightHeavyRidges(base, land_mask, hills, ridges, detail) ==
  Mul(base, HEIGHT_AMPLITUDE)
    + Mul(Mul(Mul(hills - Dec(5, 10), HEIGHT_AMPLITUDE), Dec(35, 100)), land_mask)
    + Mul(Mul(Mul(ridges, ridges), HEIGHT_AMPLITUDE),
          smoothstep(Dec(8, 100), Dec(45, 100), base))
    + Mul(Mul(detail, HEIGHT_AMPLITUDE), Dec(7, 100))

\* The land branch with the detail weighted by 0.7 instead of 0.07: a variant
\* the lower bound of the land elevation is tested against.
LandHeightHeavyDetail(base, land_mask, hills, ridges, detail) ==
  Mul(base, HEIGHT_AMPLITUDE)
    + Mul(Mul(Mul(hills - Dec(5, 10), HEIGHT_AMPLITUDE), Dec(35, 100)), land_mask)
    + Mul(Mul(Mul(Mul(ridges, ridges), HEIGHT_AMPLITUDE), Dec(9, 10)),
          smoothstep(Dec(8, 100), Dec(45, 100), base))
    + Mul(Mul(detail, HEIGHT_AMPLITUDE), Dec(7, 10))

\* The land branch of height_for_dir (height > 0).
LandHeight(base, land_mask, hills, ridges, detail) ==
  LET inland == smoothstep(Dec(8, 100), Dec(45, 100), base)
  IN Mul(base, HEIGHT_AMPLITUDE)
       + Mul(Mul(Mul(hills - Dec(5, 10), HEIGHT_AMPLITUDE), Dec(35, 100)), land_mask)
       + Mul(Mul(Mul(Mul(ridges, ridges), HEIGHT_AMPLITUDE), Dec(9, 10)), inland)
       + Mul(Mul(detail, HEIGHT_AMPLITUDE), Dec(7, 100))

\* The ocean branch without its final height.min(-0.15): a variant the
\* ocean floor is tested against.
OceanHeightUnclamped(base, detail) ==
  -Mul(Mul(Pow135(Max(-base, 0)), HEIGHT_AMPLITUDE), Dec(85, 100))
    + Mul(Mul(One - smoothstep(Dec(3, 100), Dec(2, 10), Max(-base, 0)),
              HEIGHT_AMPLITUDE), Dec(8, 100))
    + Mul(Mul(detail, HEIGHT_AMPLITUDE), Dec(4, 100))

\* The ocean branch of height_for_dir.
OceanHeight(base, detail) ==
  LET depth      == Max(-base, 0)
      shelf      == smoothstep(Dec(3, 100), Dec(2, 10), depth)
      ocean      == -Mul(Mul(Pow135(depth), HEIGHT_AMPLITUDE), Dec(85, 100))
      shelf_lift == Mul(Mul(One - shelf, HEIGHT_AMPLITUDE), Dec(8, 100))
      height     == ocean + shelf_lift
                      + Mul(Mul(detail, HEIGHT_AMPLITUDE), Dec(4, 100))
  IN Min(height, -Dec(15, 100))

\* base = continent - SEA_THRESHOLD, continent being the two continent
\* layers weighted 0.85 and 0.15.
BaseFromNoise(n) ==
  Mul(n.continent_a, Dec(85, 100)) + Mul(n.continent_b, Dec(15, 100)) - SEA_THRESHOLD

\* height_for_dir from its noise samples on: <<height, moisture>>.
HeightFromNoise(n) ==
  LET base      == BaseFromNoise(n)
      land_mask == smoothstep(0, Dec(2, 10), base)
      hills     == remap01(n.hills)
      moisture  == remap01(Mul(n.moisture_a, Dec(8, 10)) + Mul(n.moisture_b, Dec(2, 10)))
      height    == IF Mul(base, HEIGHT_AMPLITUDE) > 0
                   THEN LandHeight(base, land_mask, hills, n.ridges, n.detail)
                   ELSE OceanHeight(base, n.detail)
  IN <<height, moisture>>

height_for_dir(dir, continent_seed, hill_seed, mountain_seed, detail_seed, moisture_seed, warp_seed) ==
  Bind(NoiseSamples(dir, continent_seed, hill_seed, mountain_seed,
                    detail_seed, moisture_seed, warp_seed), HeightFromNoise)

(***************************************************************************)
(* BiomeClassifier: color_from_height.                                     *)
(***************************************************************************)
\* color_from_height testing the rock band before the snow band: a variant
\* the band order is tested against.
color_rock_before_snow(height, dir, moisture) ==
  LET h        == Div(height, HEIGHT_AMPLITUDE)
      latitude == Abs(dir[2])
      temp     == Clamp(One - latitude - Mul(h, Dec(45, 100)), 0, One)
  IN IF h < -Dec(45, 100) THEN <<20, 50, 120>>
     ELSE IF h < -Dec(2, 10) THEN <<30, 100, 220>>
     ELSE IF h < -Dec(2, 100) THEN <<60, 220, 350>>
     ELSE IF h < Dec(4, 100) THEN <<780, 720, 540>>
     ELSE IF h > Dec(65, 100) THEN <<480, 460, 440>>
     ELSE IF h > Dec(85, 100) \/ temp < Dec(15, 100) THEN <<900, 920, 960>>
     ELSE IF temp < Dec(3, 10) THEN <<620, 660, 600>>
     ELSE IF moisture < Dec(22, 100) THEN <<800, 720, 450>>
     ELSE IF moisture < Dec(5, 10) THEN <<220, 560, 280>>
     ELSE <<80, 430, 220>>

color_from_height(height, dir, moisture) ==
  LET h        == Div(height, HEIGHT_AMPLITUDE)
      latitude == Abs(dir[2])
      temp     == Clamp(One - latitude - Mul(h, Dec(45, 100)), 0, One)
  IN IF h < -Dec(45, 100) THEN <<20, 50, 120>>
     ELSE IF h < -Dec(2, 10) THEN <<30, 100, 220>>
     ELSE IF h < -Dec(2, 100) THEN <<60, 220, 350>>
     ELSE IF h < Dec(4, 100) THEN <<780, 720, 540>>
     ELSE IF h > Dec(85, 100) \/ temp < Dec(15, 100) THEN <<900, 920, 960>>
     ELSE IF h > Dec(65, 100) THEN <<480, 460, 440>>
     ELSE IF temp < Dec(3, 10) THEN <<620, 660, 600>>
     ELSE IF moisture < Dec(22, 100) THEN <<800, 720, 450>>
     ELSE IF moisture < Dec(5, 10) THEN <<220, 560, 280>>
     ELSE <<80, 430, 220>>

(***************************************************************************)
(* f32 sine and cosine at the grid angles.  An angle is counted in 120ths  *)
(* of a turn (GRID - 1 divides 60 and GRID divides 120 for the grids used).*)
(***************************************************************************)
\* sin at 0, 3, ..., 90 degrees.
SinQuarter ==
  <<0, 52, 105, 156, 208, 259, 309, 358, 407, 454, 500, 545, 588, 629, 669,
    707, 743, 777, 809, 839, 866, 891, 914, 934, 951, 966, 978, 988, 995,
    999, 1000>>

\* The sine of the real angle k/120 of a turn.
SinReal(k) ==
  LET a == k % 120
  IN IF a <= 30 THEN SinQuarter[a + 1]
     ELSE IF a <= 60 THEN SinQuarter[61 - a]
     ELSE IF a <= 90 THEN -SinQuarter[a - 59]
     ELSE -SinQuarter[121 - a]

\* f32::sin of the f32 angle (k/120) * TAU, for k in 0..120.  The f32
\* constants PI and TAU exceed pi and 2 pi (by 8.7e-8 and 1.7e-7), so the
\* f32 sine of PI is -8.742278e-8 and that of TAU is 1.7484555e-7, not 0.
\* They are kept as one unit of the model: not zero, and of the same sign.
SinF32(k) ==
  IF k = 60 THEN -1 ELSE IF k = 120 THEN 1 ELSE SinReal(k)

\* f32::cos likewise: cos(TAU / 4) is -4.371139e-8 and cos(3 * TAU / 4)
\* is 1.1924881e-8.
CosF32(k) ==
  IF k = 30 THEN -1 ELSE IF k = 90 THEN 1 ELSE SinReal(k + 30)

\* lat = v * PI with v = z / (LAT_POINTS - 1), in 120ths of a turn.
LatAngle(z) == (z * 60) \div (LAT_POINTS - 1)

\* lon = u * TAU with u = x / (LON_POINTS - 1), in 120ths of a turn.
LonAngle(x) == (x * 120) \div (LON_POINTS - 1)

\* v = z as f32 / (LAT_POINTS - 1) as f32
GridV(z) == RoundDiv(z * One, LAT_POINTS - 1)

\* u taken modulo one turn, so that the seam column gets u = 0: a variant
\* the seam's flat position is tested against.
GridUWrapped(x) == RoundDiv((x % (LON_POINTS - 1)) * One, LON_POINTS - 1)

\* u = x as f32 / (LON_POINTS - 1) as f32
GridU(x) == RoundDiv(x * One, LON_POINTS - 1)

\* dir = Vec3::new(lon.cos() * sin_lat, cos_lat, lon.sin() * sin_lat)
GridDir(z, x) ==
  <<Mul(CosF32(LonAngle(x)), SinF32(LatAngle(z))), CosF32(LatAngle(z)),
    Mul(SinF32(LonAngle(x)), SinF32(LatAngle(z)))>>

(***************************************************************************)
(* SphericalMeshBuilder: generate_mesh.                                    *)
(***************************************************************************)
\* A Vec of n copies of v, indexed from 0.
ArrayOf(n, v) == [i \in 0..(n - 1) |-> v]

\* Vec::len and Vec::push on a Vec indexed from 0.
Len0(a) == Cardinality(DOMAIN a)

Push(a, e) == [i \in 0..Len0(a) |-> IF i < Len0(a) THEN a[i] ELSE e]

VertexCount == LAT_POINTS * LON_POINTS

Idx(z, x) == z * LON_POINTS + x

\* One iteration of the sampling loop: what it stores at idx.
SampleAt(seeds, z, x) ==
  LET dir == GridDir(z, x)
      At(hm) == [height   |-> hm[1],
                 moisture |-> hm[2],
                 position |-> VScale(dir, WORLD_RADIUS + hm[1]),
                 flat     |-> <<GridU(x), GridV(z), hm[1]>>]
  IN Bind(height_for_dir(dir, seeds[1], seeds[2], seeds[3], seeds[4],
                         seeds[5], seeds[6]), At)

\* The neighbour indices with column 0 wrapping to lon_last and column
\* lon_last to 0: a variant the wrap past the duplicated seam column is
\* tested against.
NormalNeighboursSeam(z, x) ==
  LET lon_last == LON_POINTS - 1
      x_left   == IF x = 0 THEN lon_last ELSE x - 1
      x_right  == IF x = lon_last THEN 0 ELSE x + 1
  IN IF z = 0 \/ z = LAT_POINTS - 1 THEN <<>>
     ELSE <<Idx(z, x_left), Idx(z, x_right), Idx(z - 1, x), Idx(z + 1, x)>>

\* The indices of positions one iteration of the normal loop reads besides
\* idx itself: none in a pole row, else left, right, down, up.
NormalNeighbours(z, x) ==
  LET lon_last == LON_POINTS - 1
      x_left   == IF x = 0 THEN lon_last - 1 ELSE x - 1
      x_right  == IF x = lon_last THEN 1 ELSE x + 1
  IN IF z = 0 \/ z = LAT_POINTS - 1 THEN <<>>
     ELSE <<Idx(z, x_left), Idx(z, x_right), Idx(z - 1, x), Idx(z + 1, x)>>

\* The normal loop storing Vec3::Y in every row: a variant the pole normals
\* are tested against.
NormalAtUp(positions, z, x) == <<0, One, 0>>

\* The normal loop storing the normalized cross product even when it is
\* zero: a variant the radial fallback is tested against.
NormalAtNoFallback(positions, z, x) ==
  LET nb == NormalNeighbours(z, x)
  IN IF z = 0 \/ z = LAT_POINTS - 1
     THEN NormalizeOrZero(positions[Idx(z, x)])
     ELSE NormalizeOrZero(Cross(VSub(positions[nb[2]], positions[nb[1]]),
                                VSub(positions[nb[4]], positions[nb[3]])))

\* One iteration of the normal loop: the normal it stores at idx.
NormalAt(positions, z, x) ==
  LET nb == NormalNeighbours(z, x)
  IN IF z = 0 \/ z = LAT_POINTS - 1
     THEN NormalizeOrZero(positions[Idx(z, x)])
     ELSE LET tangent   == VSub(positions[nb[2]], positions[nb[1]])
              bitangent == VSub(positions[nb[4]], positions[nb[3]])
              normal    == NormalizeOrZero(Cross(tangent, bitangent))
          IN IF VNonZero(normal) THEN normal
             ELSE NormalizeOrZero(positions[Idx(z, x)])

\* One iteration of the vertex loop: the Vertex pushed for idx.
VertexAt(heights, moisture_map, positions, flat_positions, normals, idx) ==
  [pos      |-> positions[idx],
   normal   |-> normals[idx],
   color    |-> color_from_height(heights[idx], NormalizeOrZero(positions[idx]),
                                  moisture_map[idx]),
   flat_pos |-> flat_positions[idx]]

\* The index loop emitting one triangle per quad: a variant the index count
\* is tested against.
QuadIndicesOneTriangle(z, x) ==
  <<z * LON_POINTS + x, z * LON_POINTS + x + 1, (z + 1) * LON_POINTS + x>>

\* The index loop winding the second triangle of a quad the other way
\* round: a variant the orientation is tested against.
QuadIndicesFlipped(z, x) ==
  <<z * LON_POINTS + x, z * LON_POINTS + x + 1, (z + 1) * LON_POINTS + x,
    z * LON_POINTS + x + 1, (z + 1) * LON_POINTS + x, (z + 1) * LON_POINTS + x + 1>>

\* One iteration of the index loop: the six indices of quad (z, x).
QuadIndices(z, x) ==
  LET i0 == z * LON_POINTS + x
      i1 == i0 + 1
      i2 == i0 + LON_POINTS
      i3 == i2 + 1
  IN <<i0, i1, i2, i1, i3, i2>>

\* The index loop, from quad q (in row-major order) on.
RECURSIVE IndexLoop(_)
IndexLoop(q) ==
  IF q >= (LAT_POINTS - 1) * (LON_POINTS - 1) THEN <<>>
  ELSE QuadIndices(q \div (LON_POINTS - 1), q % (LON_POINTS - 1)) \o IndexLoop(q + 1)

\* generate_mesh, given the six seeds it draws: [vertices, indices].
generate_mesh(seeds) ==
  LET Grid == 0..(VertexCount - 1)
      WithSamples(smp) ==
        LET WithNormals(normals) ==
              [vertices |->
                 [idx \in Grid |->
                    VertexAt([i \in Grid |-> smp[i].height],
                             [i \in Grid |-> smp[i].moisture],
                             [i \in Grid |-> smp[i].position],
                             [i \in Grid |-> smp[i].flat], normals, idx)],
               indices |-> IndexLoop(0)]
        IN Bind([idx \in Grid |->
                   NormalAt([i \in Grid |-> smp[i].position],
                            idx \div LON_POINTS, idx % LON_POINTS)],
                WithNormals)
  IN Bind([idx \in Grid |-> SampleAt(seeds, idx \div LON_POINTS, idx % LON_POINTS)],
          WithSamples)

(***************************************************************************)
(* The rng.  One generate_mesh call draws six u32 values; the draws a run  *)
(* can make are taken from this table (each value as <<high, low>> half).  *)
(***************************************************************************)
SeedTable ==
  << <<<<27821, 18982>>, <<3873, 56758>>, <<54188, 38063>>,
       <<37057, 37583>>, <<8113, 31779>>, <<62092, 4189>>>>,
     <<<<43525, 57626>>, <<4259, 54962>>, <<3976, 2059>>,
       <<47917, 16911>>, <<45972, 64310>>, <<20290, 28107>>>> >>

SeedDraws == {SeedTable[i] : i \in DOMAIN SeedTable}

\* generate_mesh for each draw, computed once.
MeshOf == [s \in SeedDraws |-> generate_mesh(s)]

(***************************************************************************)
(* State.  state: the fields of State (input flags, terrain buffers and    *)
(* settings, staged queue writes, map_target).  frame: what the last redraw*)
(* that rendered did.  gm: one generate_mesh call, loop by loop.  hs: one  *)
(* height_for_dir call from its noise samples on.  call: one call of a     *)
(* function taken on its own, from its arguments to its result.            *)
(***************************************************************************)
VARIABLES state, frame, gm, hs, call

vars == <<state, frame, gm, hs, call>>

(***************************************************************************)
(* generate_mesh, one loop iteration per step.                             *)
(***************************************************************************)
\* The indices of positions one iteration of the normal loop reads.
NormalReads(positions, z, x) ==
  LET nb == NormalNeighbours(z, x)
  IN IF z = 0 \/ z = LAT_POINTS - 1 THEN {Idx(z, x)}
     ELSE {nb[i] : i \in DOMAIN nb}
            \cup (IF VNonZero(NormalizeOrZero(
                        Cross(VSub(positions[nb[2]], positions[nb[1]]),
                              VSub(positions[nb[4]], positions[nb[3]]))))
                  THEN {} ELSE {Idx(z, x)})

\* calls counts the generate_mesh calls begun, rng the values the rng has
\* yielded; yield is what the rng yields during the call under way, and
\* seeds the six seed variables assigned so far, in the order continent,
\* hill, mountain, detail, moisture, warp.
GmIdle ==
  [pc |-> "idle", seeds |-> <<>>, idx |-> 0, heights |-> <<>>,
   moisture_map |-> <<>>, positions |-> <<>>, flat_positions |-> <<>>,
   normals |-> <<>>, reads |-> <<>>, vertices |-> <<>>, indices |-> <<>>,
   result |-> <<>>, calls |-> 0, rng |-> 0, yield |-> <<>>]

\* The generate_mesh calls one run makes.
MaxCalls == 2

\* generate_mesh is called; the rng is in a state from which it yields s.
GmCall ==
  /\ gm.pc = "idle"
  /\ gm.calls < MaxCalls
  /\ \E s \in SeedDraws :
       gm' = [gm EXCEPT !.pc = "seed", !.yield = s, !.calls = @ + 1]
  /\ UNCHANGED <<state, frame, hs, call>>

\* The next seed variable assigned first in the list: a variant the order
\* of the draws is tested against.
DrawSeedFirst(seeds, value) == <<value>> \o seeds

\* let .._seed = rng.gen::<u32>(): the next seed variable is assigned.
DrawSeed(seeds, value) == Append(seeds, value)

\* One rng.gen::<u32>(); after the sixth, the four vec! allocations.
GmSeed ==
  /\ gm.pc = "seed"
  /\ LET drawn == DrawSeed(gm.seeds, gm.yield[Len(gm.seeds) + 1])
         last  == Len(gm.seeds) + 1 = Len(gm.yield)
     IN gm' = [gm EXCEPT !.seeds = drawn,
                         !.rng = @ + 1,
                         !.pc = IF last THEN "sample" ELSE "seed",
                         !.heights = IF last THEN ArrayOf(VertexCount, 0) ELSE @,
                         !.moisture_map = IF last THEN ArrayOf(VertexCount, 0) ELSE @,
                         !.positions = IF last THEN ArrayOf(VertexCount, VZero) ELSE @,
                         !.flat_positions =
                           IF last THEN ArrayOf(VertexCount, VZero) ELSE @]
  /\ UNCHANGED <<state, frame, hs, call>>

\* One iteration of the sampling loop; leaving it allocates normals.
GmSample ==
  /\ gm.pc = "sample"
  /\ LET idx  == gm.idx
         s    == SampleAt(gm.seeds, idx \div LON_POINTS, idx % LON_POINTS)
         last == idx + 1 = VertexCount
     IN gm' = [gm EXCEPT !.heights[idx] = s.height,
                         !.moisture_map[idx] = s.moisture,
                         !.positions[idx] = s.position,
                         !.flat_positions[idx] = s.flat,
                         !.idx = IF last THEN 0 ELSE idx + 1,
                         !.pc = IF last THEN "normal" ELSE "sample",
                         !.normals = IF last THEN ArrayOf(VertexCount, VZero) ELSE @,
                         !.reads = IF last THEN ArrayOf(VertexCount, {}) ELSE @]
  /\ UNCHANGED <<state, frame, hs, call>>

\* One iteration of the normal loop.
GmNormal ==
  /\ gm.pc = "normal"
  /\ LET idx  == gm.idx
         z    == idx \div LON_POINTS
         x    == idx % LON_POINTS
         last == idx + 1 = VertexCount
     IN gm' = [gm EXCEPT !.normals[idx] = NormalAt(gm.positions, z, x),
                         !.reads[idx] = NormalReads(gm.positions, z, x),
                         !.idx = IF last THEN 0 ELSE idx + 1,
                         !.pc = IF last THEN "vertex" ELSE "normal"]
  /\ UNCHANGED <<state, frame, hs, call>>

\* One iteration of the vertex loop.
GmVertex ==
  /\ gm.pc = "vertex"
  /\ LET idx  == gm.idx
         last == idx + 1 = Len0(gm.positions)
     IN gm' = [gm EXCEPT !.vertices =
                           Push(@, VertexAt(gm.heights, gm.moisture_map, gm.positions,
                                            gm.flat_positions, gm.normals, idx)),
                         !.idx = IF last THEN 0 ELSE idx + 1,
                         !.pc = IF last THEN "index" ELSE "vertex"]
  /\ UNCHANGED <<state, frame, hs, call>>

\* One iteration of the index loop; gm.idx counts the quads.
GmIndex ==
  /\ gm.pc = "index"
  /\ LET q    == gm.idx
         last == q + 1 = (LAT_POINTS - 1) * (LON_POINTS - 1)
     IN gm' = [gm EXCEPT !.indices = @ \o QuadIndices(q \div (LON_POINTS - 1),
                                                      q % (LON_POINTS - 1)),
                         !.idx = IF last THEN 0 ELSE q + 1,
                         !.pc = IF last THEN "return" ELSE "index"]
  /\ UNCHANGED <<state, frame, hs, call>>

\* (vertices, indices)
GmReturn ==
  /\ gm.pc = "return"
  /\ gm' = [gm EXCEPT !.pc = "done",
                      !.result = [vertices |-> gm.vertices, indices |-> gm.indices]]
  /\ UNCHANGED <<state, frame, hs, call>>

\* The caller goes on; the rng keeps its place for the next call.
GmNext ==
  /\ gm.pc = "done"
  /\ gm' = [GmIdle EXCEPT !.calls = gm.calls, !.rng = gm.rng]
  /\ UNCHANGED <<state, frame, hs, call>>

(***************************************************************************)
(* The view uniforms.  An f32 that may be NaN is a record: nan, and its    *)
(* value v when it is a number.  Of Globals the morph array is kept; the   *)
(* view_proj matrix is not modelled.                                       *)
(***************************************************************************)
F32(v) == [nan |-> FALSE, v |-> v]

NaN == [nan |-> TRUE, v |-> 0]

\* f32::clamp: NaN if self is NaN.
ClampF32(x, lo, hi) == IF x.nan THEN x ELSE F32(Clamp(x.v, lo, hi))

\* std::f32::consts::PI and TAU
PI == 3142

TAU == 6283

MAP_WIDTH == Mul(WORLD_RADIUS, TAU)

MAP_HEIGHT == Mul(WORLD_RADIUS, PI)

\* Globals { morph: [0.0; 4] }: what Terrain::new and Water::new put into
\* the uniform buffer.
GlobalsNew == <<F32(0), 0, 0, 0>>

\* Terrain::update_view writing morph as given: a variant the clamp is
\* tested against.
terrain_update_view_raw(morph, rotation) == <<morph, rotation, MAP_WIDTH, MAP_HEIGHT>>

\* Terrain::update_view: the morph array written to the uniform buffer.
terrain_update_view(morph, rotation) == <<ClampF32(morph, 0, One), rotation, MAP_WIDTH, MAP_HEIGHT>>

\* Water::update_view likewise.
water_update_view(morph, rotation) == <<ClampF32(morph, 0, One), rotation, MAP_WIDTH, MAP_HEIGHT>>

\* The water sphere's resolution: 128 in the program, small here.
WATER_RES == 3

WATER_LON == WATER_RES + 1

FLAT_WATER_OFFSET == Dec(12, 10)

GLOBE_WATER_OFFSET == Dec(6, 10)

\* The Vertex generate_sphere pushes for row z and column x.
WaterVertexAt(z, x, radius, height) ==
  LET lat == (z * 60) \div (WATER_RES - 1)
      lon == (x * 120) \div (WATER_LON - 1)
      dir == <<Mul(CosF32(lon), SinF32(lat)), CosF32(lat), Mul(SinF32(lon), SinF32(lat))>>
  IN [pos      |-> VScale(dir, radius),
      flat_pos |-> <<RoundDiv(x * One, WATER_LON - 1), RoundDiv(z * One, WATER_RES - 1),
                     height - FLAT_WATER_OFFSET>>]

\* One iteration of generate_sphere's index loop: the six indices of quad
\* (z, x).
WaterQuadIndices(z, x) ==
  LET i0 == z * WATER_LON + x
      i1 == i0 + 1
      i2 == i0 + WATER_LON
      i3 == i2 + 1
  IN <<i0, i1, i2, i1, i3, i2>>

\* generate_sphere's index loop, from quad q (in row-major order) on.
RECURSIVE WaterIndexLoop(_)
WaterIndexLoop(q) ==
  IF q >= (WATER_RES - 1) * (WATER_LON - 1) THEN <<>>
  ELSE WaterQuadIndices(q \div (WATER_LON - 1), q % (WATER_LON - 1)) \o WaterIndexLoop(q + 1)

\* water.rs generate_sphere: [vertices, indices].
generate_sphere(radius, height) ==
  [vertices |-> [idx \in 0..(WATER_RES * WATER_LON - 1) |->
                   WaterVertexAt(idx \div WATER_LON, idx % WATER_LON, radius, height)],
   indices  |-> WaterIndexLoop(0)]

\* Water::new: the buffers are created from the sphere.
WaterNew(height) ==
  LET sphere == generate_sphere(WORLD_RADIUS + height - GLOBE_WATER_OFFSET, height)
  IN [vertex_buffer |-> sphere.vertices,
      index_buffer  |-> sphere.indices,
      index_count   |-> Len(sphere.indices),
      globals       |-> GlobalsNew]

MAP_TRANSITION_SPEED == Dec(25, 10)

\* f32::exp(-x) for x >= 0: e^-x at the multiples of 0.25 up to 8, joined
\* by straight lines, and 0 (to the thousandth) beyond.
ExpNegTable ==
  <<1000, 779, 607, 472, 368, 287, 223, 174, 135, 105, 82, 64, 50, 39, 30,
    24, 18, 14, 11, 9, 7, 5, 4, 3, 2, 2, 2, 1, 1, 1, 1, 0, 0>>

ExpNeg(x) ==
  LET i == x \div 250
      r == x % 250
  IN IF i >= 32 THEN 0
     ELSE ExpNegTable[i + 1]
            + RoundDiv((ExpNegTable[i + 2] - ExpNegTable[i + 1]) * r, 250)

\* blend_step fixed at 1.0, whatever the frame time: a variant the easing of
\* the blend is tested against.
BlendStepFull(dt) == One

\* blend_step = 1.0 - (-MAP_TRANSITION_SPEED * dt).exp()
BlendStep(dt) == One - ExpNeg(Mul(MAP_TRANSITION_SPEED, dt))

\* map_blend += (map_target - map_blend) * blend_step, then clamped.
BlendToward(map_blend, map_target, blend_step) ==
  Clamp(map_blend + Mul(map_target - map_blend, blend_step), 0, One)

(***************************************************************************)
(* The GPU queue and the terrain's buffers.                                *)
(***************************************************************************)
\* wgpu Queue::write_buffer: the write is staged, and reaches the buffer at
\* the next submit.
write_buffer(staged, offset, data) ==
  Append(staged, [offset |-> offset, data |-> data])

\* A buffer's content once one staged write has reached it.
ApplyWrite(content, w) ==
  [i \in DOMAIN content |->
     IF i >= w.offset /\ i < w.offset + Len0(w.data)
     THEN w.data[i - w.offset] ELSE content[i]]

\* A buffer's content once the staged writes have reached it, in order.
RECURSIVE Flush(_, _)
Flush(content, staged) ==
  IF staged = <<>> THEN content
  ELSE Flush(ApplyWrite(content, Head(staged)), Tail(staged))

\* Terrain::new: both buffers are created from the mesh of the first draw.
TerrainNew(seeds) ==
  LET mesh == MeshOf[seeds]
  IN [vertex_buffer |-> mesh.vertices,
      index_buffer  |-> mesh.indices,
      index_count   |-> Len(mesh.indices),
      globals       |-> GlobalsNew]

\* Terrain::randomize writing only the first row of the new mesh: a variant
\* the atomic replacement is tested against.
randomize_partial(staged, seeds) ==
  write_buffer(staged, 0, [i \in 0..(LON_POINTS - 1) |-> MeshOf[seeds].vertices[i]])

\* Terrain::randomize: the new vertices, from offset 0; the indices are dropped.
randomize(staged, seeds) ==
  write_buffer(staged, 0, MeshOf[seeds].vertices)

\* Terrain::draw, when the pass executes: the vertices and indices it reads.
draw(terrain) ==
  [vertices |-> terrain.vertex_buffer,
   indices  |-> SubSeq(terrain.index_buffer, 1, terrain.index_count)]

(***************************************************************************)
(* InputState: the two request flags.                                      *)
(***************************************************************************)
\* The sine and cosine of an angle in radians, at the nearest 120th of a
\* turn.
AngleIndex(a) == RoundDiv(a * 120, TAU) % 120

SinOf(a) == SinReal(AngleIndex(a))

CosOf(a) == SinReal(AngleIndex(a) + 30)

\* f32::atan2(y, x), to the nearest 120th of a turn: the angle in (-PI, PI]
\* whose direction is nearest to that of (x, y), which is where the
\* projection of (x, y) on the direction is positive and no less than on
\* the directions next to it; 0 for (0, 0).
Atan2(y, x) ==
  IF x = 0 /\ y = 0 THEN 0
  ELSE LET along(k) == x * SinReal(k + 30) + y * SinReal(k)
           best == CHOOSE k \in -59..60 :
                     along(k) > 0 /\ along(k) >= along(k - 1) /\ along(k) >= along(k + 1)
       IN RoundDiv(best * TAU, 120)

\* f32::asin, to the nearest 120th of a turn.
Asin(v) ==
  LET off(k) == Abs(SinReal(k) - v)
      best == CHOOSE k \in -30..30 : \A j \in -30..30 : off(k) <= off(j)
  IN RoundDiv(best * TAU, 120)

\* glam Vec3::length.
VLength(a) ==
  LET s == PreScale(VMaxAbs(a), 1, 1)
      b == VRescale(a, s)
  IN (ISqrt(b[1] * b[1] + b[2] * b[2] + b[3] * b[3]) * s[2]) \div s[1]

MIN_ORBIT_FACTOR == Dec(12, 10)

MAX_ORBIT_FACTOR == 8 * One

ZOOM_SENSITIVITY == Dec(2, 10)

\* The camera's starting position.
StartPosition == <<0, Mul(WORLD_RADIUS, Dec(8, 10)), Mul(WORLD_RADIUS, Dec(18, 10))>>

\* InputState::new.  The camera is taken as active throughout, and no
\* W, A, S, D or Shift key as held.  orbit_radius is an f32 that may be NaN;
\* the position is a vector of numbers, or of three NaN.
InputStateNew ==
  LET forward_to_origin == NormalizeOrZero(VSub(VZero, StartPosition))
  IN [randomize    |-> FALSE,
      toggle_map   |-> FALSE,
      position     |-> StartPosition,
      yaw          |-> Atan2(forward_to_origin[1], forward_to_origin[3]),
      pitch        |-> Asin(forward_to_origin[2]),
      orbit_radius |-> F32(VLength(StartPosition))]

\* InputState::forward
forward(inp) ==
  LET cp == CosOf(inp.pitch)
  IN NormalizeOrZero(<<Mul(SinOf(inp.yaw), cp), SinOf(inp.pitch), Mul(CosOf(inp.yaw), cp)>>)

\* self.position = -self.forward() * self.orbit_radius
Reposition(inp) ==
  IF inp.orbit_radius.nan THEN [inp EXCEPT !.position = <<NaN, NaN, NaN>>]
  ELSE [inp EXCEPT !.position = VScale(forward(inp), -inp.orbit_radius.v)]

\* InputState::update, with no movement key held.
input_update(inp, dt) == Reposition(inp)

\* MouseScrollDelta::LineDelta(_, y) and PixelDelta(pos), y and pos.y being
\* f32 and f64 values that may be NaN.
LineDelta(y) == [kind |-> "LineDelta", y |-> y]

PixelDelta(y) == [kind |-> "PixelDelta", y |-> y]

\* The scroll amount of handle_scroll: y, or pos.y as f32 * 0.02.
ScrollAmount(delta) ==
  IF delta.kind = "LineDelta" \/ delta.y.nan THEN delta.y
  ELSE F32(Mul(delta.y.v, Dec(2, 100)))

\* factor = (1.0 - scroll * ZOOM_SENSITIVITY).clamp(0.5, 1.5): NaN for NaN.
ScrollFactor(scroll) ==
  IF scroll.nan THEN NaN
  ELSE ClampF32(F32(One - Mul(scroll.v, ZOOM_SENSITIVITY)), Dec(5, 10), Dec(15, 10))

MinOrbit == WORLD_RADIUS + Mul(HEIGHT_AMPLITUDE, MIN_ORBIT_FACTOR)

MaxOrbit == Mul(WORLD_RADIUS, MAX_ORBIT_FACTOR)

\* (self.orbit_radius * factor).clamp(min_orbit, max_orbit): NaN if either
\* is NaN.
ScrollRadius(orbit_radius, factor) ==
  IF orbit_radius.nan \/ factor.nan THEN NaN
  ELSE ClampF32(F32(Mul(orbit_radius.v, factor.v)), MinOrbit, MaxOrbit)

\* handle_scroll with its factor left unclamped: a variant the zoom limits
\* of one scroll are tested against.
handle_scroll_unclamped(inp, delta) ==
  LET scroll == ScrollAmount(delta)
      factor == IF scroll.nan THEN NaN ELSE F32(One - Mul(scroll.v, ZOOM_SENSITIVITY))
  IN IF ~scroll.nan /\ scroll.v = 0 THEN <<FALSE, inp>>
     ELSE <<TRUE, Reposition([inp EXCEPT !.orbit_radius = ScrollRadius(@, factor)])>>

\* InputState::handle_scroll: <<handled, the InputState afterwards>>.  NaN
\* is not equal to 0.0, so a NaN scroll is not returned early.
handle_scroll(inp, delta) ==
  LET scroll == ScrollAmount(delta)
  IN IF ~scroll.nan /\ scroll.v = 0 THEN <<FALSE, inp>>
     ELSE <<TRUE, Reposition([inp EXCEPT !.orbit_radius =
                                           ScrollRadius(@, ScrollFactor(scroll))])>>

\* delta * sensitivity, with sensitivity = 0.0025.
TimesSensitivity(d) == RoundDiv(d * 25, 10000)

\* InputState::handle_mouse_delta: the position is left for the next update.
handle_mouse_delta(inp, delta) ==
  [inp EXCEPT !.yaw = @ - TimesSensitivity(delta[1]),
              !.pitch = Clamp(@ - TimesSensitivity(delta[2]), -Dec(14, 10), Dec(14, 10))]

\* InputState::handle_key for the keys R and M, pressed or released: the
\* two arms guarded by "if pressed".
handle_key(inp, key, pressed) ==
  IF key = "KeyR" /\ pressed THEN [inp EXCEPT !.randomize = TRUE]
  ELSE IF key = "KeyM" /\ pressed THEN [inp EXCEPT !.toggle_map = TRUE]
  ELSE inp

\* take_randomize returning the flag without clearing it: a variant the
\* clearing of the flag is tested against.
take_randomize_keep(inp) == <<inp.randomize, inp>>

\* <<the flag, the InputState afterwards>>
take_randomize(inp) == <<inp.randomize, [inp EXCEPT !.randomize = FALSE]>>

take_toggle_map(inp) == <<inp.toggle_map, [inp EXCEPT !.toggle_map = FALSE]>>

(***************************************************************************)
(* Gui::draw: the sliders and the settings validation.                     *)
(***************************************************************************)
\* An egui slider over lo..=hi: <<the value afterwards, changed()>>.  move is
\* <<>> when the user leaves the slider alone, <<v>> when they drag it to v.
Slider(value, move, lo, hi) ==
  LET new == IF move = <<>> THEN value ELSE Clamp(move[1], lo, hi)
  IN <<new, new # value>>

\* The four sliders, in the order they are added.
SliderEdits(s, ev) ==
  LET beach     == Slider(s.beach_max_height, ev.beach, 0, Dec(8, 100))
      desert    == Slider(s.desert_moisture_max, ev.desert, 0, One)
      semi_arid == Slider(s.semi_arid_moisture_max, ev.semi_arid, 0, One)
      bias      == Slider(s.land_elevation_bias, ev.bias, -Dec(5, 100), Dec(15, 100))
  IN [settings |-> [beach_max_height       |-> beach[1],
                    desert_moisture_max    |-> desert[1],
                    semi_arid_moisture_max |-> semi_arid[1],
                    land_elevation_bias    |-> bias[1]],
      settings_changed |-> beach[2] \/ desert[2] \/ semi_arid[2] \/ bias[2]]

\* The validation without the ordering test: a variant the settings ordering
\* is tested against.
ValidateSettingsUnchecked(s, settings_changed) ==
  [settings |-> s, settings_changed |-> settings_changed]

\* The validation lowering desert_moisture_max instead: a variant the
\* correction is tested against.
ValidateSettingsLowerDesert(s, settings_changed) ==
  IF s.semi_arid_moisture_max < s.desert_moisture_max
  THEN [settings |-> [s EXCEPT !.desert_moisture_max = s.semi_arid_moisture_max],
        settings_changed |-> TRUE]
  ELSE [settings |-> s, settings_changed |-> settings_changed]

\* if settings.semi_arid_moisture_max < settings.desert_moisture_max { .. }
ValidateSettings(s, settings_changed) ==
  IF s.semi_arid_moisture_max < s.desert_moisture_max
  THEN [settings |-> [s EXCEPT !.semi_arid_moisture_max = s.desert_moisture_max],
        settings_changed |-> TRUE]
  ELSE [settings |-> s, settings_changed |-> settings_changed]

\* Gui::draw: the UiFrame it returns (without the command buffers).
gui_draw(s, ev) ==
  LET edits == SliderEdits(s, ev)
      valid == ValidateSettings(edits.settings, edits.settings_changed)
  IN [randomize        |-> ev.randomize,
      toggle_map       |-> ev.toggle_map,
      settings         |-> valid.settings,
      settings_changed |-> valid.settings_changed]

(***************************************************************************)
(* TerrainSettings.  The record, its default and the accessors are not in  *)
(* the sources; they follow the specification: four fields, stored as      *)
(* given.  The default carries the thresholds color_from_height hard-codes.*)
(***************************************************************************)
DefaultSettings ==
  [beach_max_height       |-> Dec(4, 100),
   desert_moisture_max    |-> Dec(22, 100),
   semi_arid_moisture_max |-> Dec(5, 10),
   land_elevation_bias    |-> 0]

\* Terrain::settings
terrain_settings(st) == st.settings

\* Terrain::set_settings
set_settings(st, s) == [st EXCEPT !.settings = s]

(***************************************************************************)
(* State: new, toggle_map, update, render.                                 *)
(***************************************************************************)
\* zooms is not a field of State: it counts the wheel events that changed
\* orbit_radius.  toggle_log is not a field of State: it records the camera direction
\* toggle_map saw at its last call (dir) and at its last call that went to
\* the flat map (flat_dir).
StateNew(seeds, s) ==
  [input        |-> InputStateNew,
   terrain      |-> TerrainNew(seeds),
   water        |-> WaterNew(WATER_LEVEL),
   settings     |-> s,
   queue        |-> <<>>,
   map_blend    |-> 0,
   map_target   |-> 0,
   map_rotation |-> 0,
   toggle_log   |-> [dir |-> <<>>, flat_dir |-> <<>>],
   zooms        |-> 0]

\* PI - lon_center
RotationFor(dir) == PI - Atan2(dir[3], dir[1])

\* toggle_map recomputing the rotation on the way back to the globe as
\* well: a variant the kept rotation is tested against.
toggle_map_both(st) ==
  LET dir == NormalizeOrZero(st.input.position)
  IN IF st.map_target < Dec(5, 10)
     THEN [st EXCEPT !.map_rotation = RotationFor(dir), !.map_target = One,
                     !.toggle_log = [dir |-> <<dir>>, flat_dir |-> <<dir>>]]
     ELSE [st EXCEPT !.map_rotation = RotationFor(dir), !.map_target = 0,
                     !.toggle_log.dir = <<dir>>]

\* toggle_map without its way back to the globe: a variant the flip of
\* map_target is tested against.
toggle_map_one_way(st) ==
  LET dir == NormalizeOrZero(st.input.position)
  IN IF st.map_target < Dec(5, 10)
     THEN [st EXCEPT !.map_rotation = RotationFor(dir), !.map_target = One,
                     !.toggle_log = [dir |-> <<dir>>, flat_dir |-> <<dir>>]]
     ELSE [st EXCEPT !.toggle_log.dir = <<dir>>]

toggle_map(st) ==
  LET dir == NormalizeOrZero(st.input.position)
  IN IF st.map_target < Dec(5, 10)
     THEN [st EXCEPT !.map_rotation = RotationFor(dir), !.map_target = One,
                     !.toggle_log = [dir |-> <<dir>>, flat_dir |-> <<dir>>]]
     ELSE [st EXCEPT !.map_target = 0, !.toggle_log.dir = <<dir>>]

\* Queue::submit: the staged writes reach the buffer before the passes run.
submit(st) ==
  [st EXCEPT !.terrain.vertex_buffer = Flush(@, st.queue), !.queue = <<>>]

\* The blend, and the two update_view calls of State::update.
UpdateBlend(st, dt) ==
  LET map_blend == BlendToward(st.map_blend, st.map_target, BlendStep(dt))
  IN [st EXCEPT !.map_blend = map_blend,
                !.terrain.globals = terrain_update_view(F32(map_blend), st.map_rotation),
                !.water.globals = water_update_view(F32(map_blend), st.map_rotation)]

\* State::update; dt is the time since the last frame, seeds what the rng
\* yields if randomize draws from it.
update(st, seeds, dt) ==
  LET moved   == input_update(st.input, dt)
      toggle  == take_toggle_map(moved)
      toggled == IF toggle[1] THEN toggle_map([st EXCEPT !.input = toggle[2]])
                 ELSE [st EXCEPT !.input = toggle[2]]
      viewed  == UpdateBlend(toggled, dt)
      request == take_randomize(viewed.input)
      taken   == [viewed EXCEPT !.input = request[2]]
  IN IF request[1] THEN [taken EXCEPT !.queue = randomize(@, seeds)]
     ELSE taken

\* What a redraw that has not rendered yet leaves in frame.
NoFrame(s) ==
  [rendered     |-> FALSE,
   drawn        |-> [vertices |-> <<>>, indices |-> <<>>],
   applied      |-> 0,
   given        |-> s,
   seen         |-> s,
   edited       |-> FALSE,
   ui           |-> [randomize |-> FALSE, toggle_map |-> FALSE, settings |-> s,
                     settings_changed |-> FALSE],
   set_settings |-> <<>>,
   ever_set     |-> FALSE]

\* State::render: [state, frame] afterwards.  surface_ok is whether
\* get_current_texture succeeds, ev what the user does in the overlay, seeds
\* what the rng yields if the overlay's Randomise draws from it.
render(st, fr, surface_ok, ev, seeds) ==
  IF ~surface_ok THEN [state |-> st, frame |-> fr]
  ELSE
    LET given     == terrain_settings(st)
        edits     == SliderEdits(given, ev)
        ui_frame  == gui_draw(given, ev)
        submitted == submit(st)
        with_set  == IF ui_frame.settings_changed
                     THEN set_settings(submitted, ui_frame.settings)
                     ELSE submitted
        with_rand == IF ui_frame.randomize
                     THEN [with_set EXCEPT !.queue = randomize(@, seeds)]
                     ELSE with_set
        with_map  == IF ui_frame.toggle_map THEN toggle_map(with_rand)
                     ELSE with_rand
    IN [state |-> with_map,
        frame |-> [rendered     |-> TRUE,
                   drawn        |-> draw(submitted.terrain),
                   applied      |-> Len(st.queue),
                   given        |-> given,
                   seen         |-> edits.settings,
                   edited       |-> edits.settings_changed,
                   ui           |-> ui_frame,
                   set_settings |-> IF ui_frame.settings_changed
                                    THEN <<ui_frame.settings>> ELSE <<>>,
                   ever_set     |-> fr.ever_set \/ ui_frame.settings_changed]]

(***************************************************************************)
(* The event loop: one action per event handled.                           *)
(***************************************************************************)
Keys == {"KeyR", "KeyM"}

\* WindowEvent::KeyboardInput: one of the keys K, in one of the states P
\* (TRUE for pressed, FALSE for released).
KeyEvent(K, P) ==
  /\ \E key \in K, pressed \in P :
       state' = [state EXCEPT !.input = handle_key(@, key, pressed)]
  /\ UNCHANGED <<frame, gm, hs, call>>

\* One of the keys K pressed.
KeyPressed(K) == KeyEvent(K, {TRUE})

KeyboardInput == KeyEvent(Keys, BOOLEAN)

\* The mouse moved by 628 pixels to either side.
MouseDeltas == {<<628 * One, 0>>, <<-628 * One, 0>>}

\* The yaw, in whole radians, up to which the mouse is followed.
MaxYaw == 4

\* DeviceEvent::MouseMotion
MouseMotion ==
  /\ \E delta \in MouseDeltas :
       \E inp \in {handle_mouse_delta(state.input, delta)} :
         /\ Abs(inp.yaw) <= MaxYaw * One
         /\ state' = [state EXCEPT !.input = inp]
  /\ UNCHANGED <<frame, gm, hs, call>>

\* Three lines of the wheel, away from the user.
Scrolls == {LineDelta(F32(3 * One))}

\* The changes of orbit_radius a run is followed for.
MaxZooms == 4

\* WindowEvent::MouseWheel with one of the deltas D.  zooms counts the
\* events that changed orbit_radius.
WheelEvent(D) ==
  /\ \E delta \in D :
       \E inp \in {handle_scroll(state.input, delta)[2]} :
         /\ inp.orbit_radius = state.input.orbit_radius \/ state.zooms < MaxZooms
         /\ state' = [state EXCEPT !.input = inp,
                                   !.zooms = IF inp.orbit_radius = state.input.orbit_radius
                                             THEN @ ELSE @ + 1]
  /\ UNCHANGED <<frame, gm, hs, call>>

MouseWheel == WheelEvent(Scrolls)

\* The wheel either way by lines and by pixels, past both clamps of the
\* factor (1.6 and 0.4) and within them (0.8), not at all, and NaN.
WheelDeltas ==
  {LineDelta(F32(-3 * One)), LineDelta(F32(One)), LineDelta(F32(3 * One)),
   LineDelta(F32(0)), LineDelta(NaN),
   PixelDelta(F32(-150 * One)), PixelDelta(F32(0)), PixelDelta(NaN)}

MouseWheelAny == WheelEvent(WheelDeltas)

\* The R key, pressed or released.
RandomizeKey == KeyEvent({"KeyR"}, BOOLEAN)

\* The writes that may wait for a submit when a frame's surface is lost.
MaxStaged == 1

\* WindowEvent::RedrawRequested: update, then render.  A frame whose surface
\* is lost submits nothing, so what update staged waits for the next frame.
Redraw(Events, Draws, Dts) ==
  /\ \E s1 \in Draws, s2 \in Draws, surface_ok \in BOOLEAN, ev \in Events, dt \in Dts :
       \E updated \in {update(state, s1, dt)} :
         /\ surface_ok \/ Len(updated.queue) <= MaxStaged
         /\ \E r \in {render(updated, frame, surface_ok, ev, s2)} :
              /\ state' = r.state
              /\ frame' = r.frame
  /\ UNCHANGED <<gm, hs, call>>

\* The overlay's buttons, sliders left alone.
ButtonEvents ==
  [randomize : BOOLEAN, toggle_map : BOOLEAN, beach : {<<>>}, desert : {<<>>},
   semi_arid : {<<>>}, bias : {<<>>}]

\* The overlay's sliders, buttons left alone.
SliderEvents ==
  [randomize : {FALSE}, toggle_map : {FALSE},
   beach     : {<<>>, <<Dec(8, 100)>>},
   desert    : {<<>>, <<Dec(9, 10)>>, <<One>>},
   semi_arid : {<<>>, <<0>>, <<Dec(1, 10)>>},
   bias      : {<<>>, <<Dec(15, 100)>>}]

\* The settings records a run may start from, ordered or not.
SettingsRecords ==
  [beach_max_height       : {Dec(4, 100), Dec(8, 100)},
   desert_moisture_max    : {Dec(22, 100), Dec(9, 10), One},
   semi_arid_moisture_max : {0, Dec(1, 10), Dec(5, 10)},
   land_elevation_bias    : {0, Dec(15, 100)}]

\* Frames so long that the blend arrives at its target within one.
LongFrames == {100 * One}

\* Frame times from none to long, in seconds.
FrameTimes == {0, One, 100 * One}

\* The overlay's Map button, all else left alone.
ToggleEvents ==
  [randomize : {FALSE}, toggle_map : BOOLEAN, beach : {<<>>}, desert : {<<>>},
   semi_arid : {<<>>}, bias : {<<>>}]

RedrawRequested == Redraw(ButtonEvents, SeedDraws, LongFrames)

RedrawWithSliders == Redraw(SliderEvents, {SeedTable[1]}, LongFrames)

\* The M key, and redraws of any frame time.
ToggleKey == KeyPressed({"KeyM"})

RedrawBlend == Redraw(ToggleEvents, {SeedTable[1]}, FrameTimes)

RedrawCamera == Redraw(ToggleEvents, {SeedTable[1]}, LongFrames)

\* The overlay left alone.
NoEvents ==
  [randomize : {FALSE}, toggle_map : {FALSE}, beach : {<<>>}, desert : {<<>>},
   semi_arid : {<<>>}, bias : {<<>>}]

RedrawOrbit == Redraw(NoEvents, {SeedTable[1]}, LongFrames)

(***************************************************************************)
(* height_for_dir from its noise samples on.                               *)
(***************************************************************************)
\* Noise samples at chosen levels: every fbm value within [-1, 1], the
\* ridged value within [0, 1].
NoiseLevels ==
  [continent_a : {-One, -Dec(2, 10), Dec(4, 10), Dec(7, 10), One},
   continent_b : {-One, One},
   hills       : {-One, 0, One},
   ridges      : {0, Dec(5, 10), One},
   detail      : {-One, One},
   moisture_a  : {-One, 0, One},
   moisture_b  : {-One, One}]

\* The noise samples of the first draw along the second latitude row.
NoiseOnGrid ==
  {NoiseSamples(GridDir(1, x), SeedTable[1][1], SeedTable[1][2], SeedTable[1][3],
                SeedTable[1][4], SeedTable[1][5], SeedTable[1][6]) :
     x \in 0..(LON_POINTS - 1)}

HsIdle ==
  [pc |-> "idle", height |-> 0, moisture |-> 0,
   noise |-> [continent_a |-> 0, continent_b |-> 0, hills |-> 0, ridges |-> 0,
              detail |-> 0, moisture_a |-> 0, moisture_b |-> 0]]

\* (height, moisture)
HeightReturn ==
  /\ hs.pc = "called"
  /\ \E out \in {HeightFromNoise(hs.noise)} :
       hs' = [hs EXCEPT !.pc = "returned", !.height = out[1], !.moisture = out[2]]
  /\ UNCHANGED <<state, frame, gm, call>>

(***************************************************************************)
(* Functions taken on their own: a call has a name, its arguments, and,    *)
(* once it has returned, its result.                                       *)
(***************************************************************************)
CallIdle == [op |-> "none", pc |-> "idle", args |-> <<>>, result |-> <<>>]

\* The call of op on args, not yet run.
CallOf(op, args) == [op |-> op, pc |-> "called", args |-> args, result |-> <<>>]

\* The arguments color_from_height is called on: heights on both sides of
\* every threshold, directions from the equator to both poles, moistures on
\* both sides of both thresholds.
ColorArgs ==
  [height   : {Mul(h, HEIGHT_AMPLITUDE) :
                 h \in {-Dec(5, 10), -Dec(45, 100), -Dec(3, 10), -Dec(2, 10),
                        -Dec(1, 10), -Dec(2, 100), 0, Dec(3, 100), Dec(4, 100),
                        Dec(3, 10), Dec(65, 100), Dec(7, 10), Dec(85, 100),
                        Dec(9, 10)}},
   dir      : {<<One, 0, 0>>, <<866, 500, 0>>, <<661, 750, 0>>, <<436, 900, 0>>,
               <<0, One, 0>>, <<0, -One, 0>>},
   moisture : {0, Dec(22, 100), Dec(3, 10), Dec(5, 10), Dec(8, 10)}]

ColorCall ==
  /\ call.op = "color_from_height" /\ call.pc = "called"
  /\ call' = [call EXCEPT !.pc = "returned",
                          !.result = color_from_height(call.args.height, call.args.dir,
                                                       call.args.moisture)]
  /\ UNCHANGED <<state, frame, gm, hs>>

\* update_view of the terrain and of the water with a morph argument of
\* any kind: below 0, within [0, 1], above 1, NaN.
UpdateViewArgs ==
  [morph : {F32(-Dec(5, 10)), F32(0), F32(Dec(5, 10)), F32(One), F32(Dec(15, 10)), NaN},
   rotation : {0, PI}]

UpdateViewCall ==
  /\ call.op = "update_view" /\ call.pc = "called"
  /\ call' = [call EXCEPT !.pc = "returned",
                          !.result = [terrain |-> terrain_update_view(call.args.morph, call.args.rotation),
                                      water   |-> water_update_view(call.args.morph, call.args.rotation)]]
  /\ UNCHANGED <<state, frame, gm, hs>>

\* Coordinates within the i32 range and at its two ends: 0.5, -0.5,
\* 2^31 - 128 (the largest f32 below 2^31), 2^31, 2^31 + 256, -2^31 and
\* -2^31 - 256.
NearCoords == {WideOf(Dec(5, 10)), WideOf(-Dec(5, 10))}

FarCoords ==
  {<<32767, 65408, 0>>, <<32768, 0, 0>>, <<32768, 256, 0>>, <<-32768, 0, 0>>,
   <<-32769, 65280, 0>>}

\* sample_noise_3d at points with at most one far coordinate.
NoiseArgs ==
  {a \in [x : NearCoords \cup FarCoords, y : NearCoords \cup FarCoords,
          z : NearCoords \cup FarCoords, seed : {SeedTable[1][1]}] :
     Cardinality({c \in {"x", "y", "z"} : a[c] \in FarCoords}) <= 1}

\* One sample_noise_3d call, in a build with or without overflow checks.
NoiseCall ==
  /\ call.op = "sample_noise_3d" /\ call.pc = "called"
  /\ \E overflow_checks \in BOOLEAN :
       call' = [call EXCEPT !.pc = "returned",
                            !.result = SampleNoiseChecked(call.args.x, call.args.y,
                                                          call.args.z, call.args.seed,
                                                          overflow_checks)]
  /\ UNCHANGED <<state, frame, gm, hs>>

\* Lattice points with negative coordinates and coordinates at the ends of
\* the i32 range, and seeds with no bit, some bits and every bit set.
Hash3Args ==
  [x : {-1, 0, 7, I32Min, I32Max}, y : {-3, 0, 2}, z : {-1, 0, 5},
   seed : {<<0, 0>>, SeedTable[1][1], <<65535, 65535>>}]

\* One hash3 call: the integer n before the conversion, and the f32
\* returned.
Hash3Call ==
  /\ call.op = "hash3" /\ call.pc = "called"
  /\ call' = [call EXCEPT !.pc = "returned",
                          !.result = [n     |-> Hash3Bits(call.args.x, call.args.y,
                                                          call.args.z, call.args.seed),
                                      value |-> hash3(call.args.x, call.args.y,
                                                      call.args.z, call.args.seed)]]
  /\ UNCHANGED <<state, frame, gm, hs>>

\* Position arrays for the normal loop: those of a generated mesh, every
\* vertex at one point, the vertices along one line, and a flat sheet.
PositionArrays ==
  {[i \in 0..(VertexCount - 1) |-> MeshOf[SeedTable[1]].vertices[i].pos],
   [i \in 0..(VertexCount - 1) |-> <<WORLD_RADIUS, 0, 0>>],
   [i \in 0..(VertexCount - 1) |-> <<(i + 1) * One, 0, 0>>],
   [i \in 0..(VertexCount - 1) |-> <<(i % LON_POINTS) * One, One, (i \div LON_POINTS) * One>>]}

\* The normal loop's iterations in the interior rows.
NormalArgs ==
  [positions : PositionArrays, z : 1..(LAT_POINTS - 2), x : 0..(LON_POINTS - 1)]

\* One iteration of the normal loop on its own.
NormalCall ==
  /\ call.op = "normal" /\ call.pc = "called"
  /\ call' = [call EXCEPT !.pc = "returned",
                          !.result = NormalAt(call.args.positions, call.args.z, call.args.x)]
  /\ UNCHANGED <<state, frame, gm, hs>>

\* The calls a run may start with.
PendingCalls ==
  {CallOf("color_from_height", a) : a \in ColorArgs}
    \cup {CallOf("sample_noise_3d", a) : a \in NoiseArgs}
    \cup {CallOf("hash3", a) : a \in Hash3Args}
    \cup {CallOf("normal", a) : a \in NormalArgs}

(***************************************************************************)
(* Specifications.                                                         *)
(***************************************************************************)
\* The application: State::new, then key presses and redraws.
Init ==
  /\ \E s \in SeedDraws : state = StateNew(s, DefaultSettings)
  /\ frame = NoFrame(DefaultSettings)
  /\ gm = GmIdle
  /\ hs = HsIdle
  /\ call = CallIdle

Next == KeyboardInput \/ RedrawRequested

Spec == Init /\ [][Next]_vars

\* The overlay's sliders, from any stored settings record.
InitSettings ==
  /\ \E s \in SettingsRecords :
       /\ state = StateNew(SeedTable[1], s)
       /\ frame = NoFrame(s)
  /\ gm = GmIdle
  /\ hs = HsIdle
  /\ call = CallIdle

NextSettings == RedrawWithSliders

SpecSettings == InitSettings /\ [][NextSettings]_vars

\* generate_mesh, called up to MaxCalls times on one rng.
InitMesh ==
  /\ state = StateNew(SeedTable[1], DefaultSettings)
  /\ frame = NoFrame(DefaultSettings)
  /\ gm = GmIdle
  /\ hs = HsIdle
  /\ call = CallIdle

NextMesh ==
  GmCall \/ GmSeed \/ GmSample \/ GmNormal \/ GmVertex \/ GmIndex \/ GmReturn \/ GmNext

SpecMesh == InitMesh /\ [][NextMesh]_vars

\* One height_for_dir call, from its noise samples on.
InitHeight ==
  /\ state = StateNew(SeedTable[1], DefaultSettings)
  /\ frame = NoFrame(DefaultSettings)
  /\ gm = GmIdle
  /\ \E n \in NoiseLevels \cup NoiseOnGrid : hs = [HsIdle EXCEPT !.pc = "called", !.noise = n]
  /\ call = CallIdle

NextHeight == HeightReturn

SpecHeight == InitHeight /\ [][NextHeight]_vars

\* One call of a function on its own.
InitCalls ==
  /\ state = StateNew(SeedTable[1], DefaultSettings)
  /\ frame = NoFrame(DefaultSettings)
  /\ gm = GmIdle
  /\ hs = HsIdle
  /\ call \in PendingCalls

NextCalls == ColorCall \/ NoiseCall \/ Hash3Call \/ NormalCall

SpecCalls == InitCalls /\ [][NextCalls]_vars

\* The projection blend: the M key, the Map button, redraws of any frame
\* time, and one update_view call with any morph argument.
InitBlend ==
  /\ state = StateNew(SeedTable[1], DefaultSettings)
  /\ frame = NoFrame(DefaultSettings)
  /\ gm = GmIdle
  /\ hs = HsIdle
  /\ call \in {CallOf("update_view", a) : a \in UpdateViewArgs}

NextBlend == ToggleKey \/ RedrawBlend \/ UpdateViewCall

SpecBlend == InitBlend /\ [][NextBlend]_vars

\* The camera and the projection: the mouse, the wheel, the M key, the Map
\* button and redraws.
InitCamera ==
  /\ state = StateNew(SeedTable[1], DefaultSettings)
  /\ frame = NoFrame(DefaultSettings)
  /\ gm = GmIdle
  /\ hs = HsIdle
  /\ call = CallIdle

NextCamera == ToggleKey \/ RedrawCamera \/ MouseMotion \/ MouseWheel

SpecCamera == InitCamera /\ [][NextCamera]_vars

\* The orbit: the wheel with any delta, the mouse, the R key and redraws.
NextOrbit == MouseWheelAny \/ MouseMotion \/ RandomizeKey \/ RedrawOrbit

SpecOrbit == InitCamera /\ [][NextOrbit]_vars

\* The loop-by-loop generate_mesh returns what generate_mesh returns.
GenerateMeshAgrees ==
  gm.pc = "done" => gm.result = MeshOf[gm.seeds]

(***************************************************************************)
(* The claims.                                                             *)
(***************************************************************************)
\* C1.  After the validation step of Gui::draw the returned settings have
\* semi_arid_moisture_max >= desert_moisture_max, whatever the sliders were
\* dragged to (semi-arid 0 and desert 1 included), and no record with
\* semi_arid_moisture_max < desert_moisture_max is passed to
\* Terrain::set_settings, nor stored once set_settings has been called.
SettingsOrdered ==
  frame.rendered =>
    /\ frame.ui.settings.semi_arid_moisture_max
         >= frame.ui.settings.desert_moisture_max
    /\ \A i \in DOMAIN frame.set_settings :
         frame.set_settings[i].semi_arid_moisture_max
           >= frame.set_settings[i].desert_moisture_max
    /\ frame.ever_set =>
         state.settings.semi_arid_moisture_max >= state.settings.desert_moisture_max

\* The sliders stood at semi-arid 0 and desert 1 before the validation, and
\* the corrected record was passed to set_settings.
SettingsOrderedWitness ==
  /\ frame.rendered
  /\ frame.seen.semi_arid_moisture_max = 0
  /\ frame.seen.desert_moisture_max = One
  /\ frame.edited
  /\ frame.set_settings # <<>>
  /\ state.settings.semi_arid_moisture_max = One

\* C2.  When the validation sees semi_arid_moisture_max < desert_moisture_max
\* it returns the record with semi_arid_moisture_max set to
\* desert_moisture_max and the other three fields as they were, with
\* settings_changed true; when the record is ordered and no slider was
\* edited it returns the record it was given with settings_changed false,
\* and render calls no set_settings.
ValidatorCorrects ==
  frame.rendered =>
    /\ frame.seen.semi_arid_moisture_max < frame.seen.desert_moisture_max =>
         /\ frame.ui.settings =
              [frame.seen EXCEPT !.semi_arid_moisture_max =
                                   frame.seen.desert_moisture_max]
         /\ frame.ui.settings_changed
         /\ frame.set_settings = <<frame.ui.settings>>
    /\ (/\ frame.seen.semi_arid_moisture_max >= frame.seen.desert_moisture_max
        /\ ~frame.edited) =>
         /\ frame.ui.settings = frame.given
         /\ ~frame.ui.settings_changed
         /\ frame.set_settings = <<>>
         /\ state.settings = frame.given

\* Desert 0.9 and semi-arid 0.1 were seen and semi-arid came back as 0.9.
ValidatorCorrectsWitness ==
  /\ frame.rendered
  /\ frame.seen.desert_moisture_max = Dec(9, 10)
  /\ frame.seen.semi_arid_moisture_max = Dec(1, 10)
  /\ frame.ui.settings.semi_arid_moisture_max = Dec(9, 10)
  /\ frame.ui.settings.desert_moisture_max = Dec(9, 10)
  /\ frame.ui.settings_changed

\* C3.  In the mesh generate_mesh returns, in every latitude row the vertex
\* at column 0 and the vertex at the duplicated column LON_POINTS - 1 have
\* equal position, equal normal and equal color.
SeamContinuity ==
  gm.pc = "done" =>
    \A z \in 0..(LAT_POINTS - 1) :
      /\ gm.result.vertices[Idx(z, 0)].pos
           = gm.result.vertices[Idx(z, LON_POINTS - 1)].pos
      /\ gm.result.vertices[Idx(z, 0)].normal
           = gm.result.vertices[Idx(z, LON_POINTS - 1)].normal
      /\ gm.result.vertices[Idx(z, 0)].color
           = gm.result.vertices[Idx(z, LON_POINTS - 1)].color

PoleNormals ==
  \A z \in {0, LAT_POINTS - 1}, x \in 0..(LON_POINTS - 1) :
    /\ (\/ gm.pc \in {"vertex", "index", "return", "done"}
        \/ gm.pc = "normal" /\ Idx(z, x) < gm.idx) =>
         /\ gm.normals[Idx(z, x)] = NormalizeOrZero(gm.positions[Idx(z, x)])
         /\ gm.reads[Idx(z, x)] = {Idx(z, x)}
    /\ gm.pc = "done" =>
         gm.result.vertices[Idx(z, x)].normal
           = NormalizeOrZero(gm.result.vertices[Idx(z, x)].pos)

\* A mesh was returned whose last row's seam vertex has a normal pointing
\* down, read from its own position only.
PoleNormalsWitness ==
  /\ gm.pc = "done"
  /\ gm.result.vertices[Idx(LAT_POINTS - 1, LON_POINTS - 1)].normal[2] < 0
  /\ gm.reads[Idx(LAT_POINTS - 1, LON_POINTS - 1)]
       = {Idx(LAT_POINTS - 1, LON_POINTS - 1)}
  /\ gm.reads[Idx(1, LON_POINTS - 1)] # {Idx(1, LON_POINTS - 1)}

\* C6.  After Terrain::new and any number of Terrain::randomize calls the
\* vertex buffer holds LAT_POINTS * LON_POINTS = GRID * (GRID + 1) vertices,
\* the vertex of grid point (z, x) at index z * LON_POINTS + x, and
\* index_count is (LAT_POINTS - 1) * (LON_POINTS - 1) * 6; the index buffer
\* and index_count stay what Terrain::new made them, and every write
\* randomize stages covers the whole vertex buffer.
BufferLayout ==
  /\ DOMAIN state.terrain.vertex_buffer = 0..(LAT_POINTS * LON_POINTS - 1)
  /\ LAT_POINTS * LON_POINTS = GRID * (GRID + 1)
  /\ \A z \in 0..(LAT_POINTS - 1), x \in 0..(LON_POINTS - 1) :
       /\ state.terrain.vertex_buffer[z * LON_POINTS + x].flat_pos[1] = GridU(x)
       /\ state.terrain.vertex_buffer[z * LON_POINTS + x].flat_pos[2] = GridV(z)
  /\ state.terrain.index_count = (LAT_POINTS - 1) * (LON_POINTS - 1) * 6
  /\ Len(state.terrain.index_buffer) = state.terrain.index_count
  /\ state.terrain.index_buffer = IndexLoop(0)
  /\ \A i \in DOMAIN state.queue :
       /\ state.queue[i].offset = 0
       /\ DOMAIN state.queue[i].data = 0..(LAT_POINTS * LON_POINTS - 1)

\* A randomize write has reached the vertex buffer and been drawn, and
\* another one is staged.
BufferLayoutWitness ==
  /\ frame.rendered
  /\ frame.applied > 0
  /\ state.queue # <<>>
  /\ Len(frame.drawn.indices) = (LAT_POINTS - 1) * (LON_POINTS - 1) * 6

MoistureInRange ==
  hs.pc = "returned" =>
    /\ hs.height > 0 => hs.moisture >= 0 /\ hs.moisture <= One
    /\ hs.height <= 0 => hs.moisture >= 0 /\ hs.moisture <= One

\* The land branch returned the moisture 1.
MoistureInRangeWitness ==
  /\ hs.pc = "returned"
  /\ hs.height > 0
  /\ hs.moisture = One
  /\ hs.noise.moisture_a = One

\* C10.  The elevation height_for_dir returns satisfies
\* |elevation| <= 1.845 * HEIGHT_AMPLITUDE, given every fbm value in
\* [-1, 1] and every ridged value in [0, 1].
ElevationBound ==
  hs.pc = "returned" =>
    Abs(hs.height) <= Mul(Dec(1845, 1000), HEIGHT_AMPLITUDE)

\* The land branch returned exactly 1.845 * HEIGHT_AMPLITUDE.
ElevationBoundWitness ==
  /\ hs.pc = "returned"
  /\ hs.height = Mul(Dec(1845, 1000), HEIGHT_AMPLITUDE)
  /\ hs.noise.ridges = One

\* C11.  Whenever height_for_dir takes the ocean branch (base <= 0) the
\* elevation it returns is at most -0.15, whatever the shelf lift and the
\* detail term are: no ocean sample lies in (-0.15, 0] or reaches the
\* water level.
OceanBelowFloor ==
  (hs.pc = "returned" /\ BaseFromNoise(hs.noise) <= 0) =>
    /\ hs.height <= -Dec(15, 100)
    /\ hs.height < WATER_LEVEL

\* The ocean branch returned exactly the floor, with the largest detail
\* term on a shallow shelf.
OceanBelowFloorWitness ==
  /\ hs.pc = "returned"
  /\ BaseFromNoise(hs.noise) <= 0
  /\ BaseFromNoise(hs.noise) > -Dec(2, 10)
  /\ hs.noise.detail = One
  /\ hs.height = -Dec(15, 100)

\* C12.  color_from_height returns the color of the first band, in the
\* order deep ocean, mid ocean, shallow ocean, beach, snow, rock, cold band,
\* desert, grassland, forest, whose condition holds, with
\* h = height / HEIGHT_AMPLITUDE: for h < 0.04 the color depends on h alone,
\* and snow wins over rock where both conditions hold.
FirstBandWins ==
  (call.op = "color_from_height" /\ call.pc = "returned") =>
    LET h     == Div(call.args.height, HEIGHT_AMPLITUDE)
        temp  == Clamp(One - Abs(call.args.dir[2]) - Mul(h, Dec(45, 100)), 0, One)
        bands == << <<h < -Dec(45, 100), <<20, 50, 120>> >>,
                    <<h < -Dec(2, 10), <<30, 100, 220>> >>,
                    <<h < -Dec(2, 100), <<60, 220, 350>> >>,
                    <<h < Dec(4, 100), <<780, 720, 540>> >>,
                    <<h > Dec(85, 100) \/ temp < Dec(15, 100), <<900, 920, 960>> >>,
                    <<h > Dec(65, 100), <<480, 460, 440>> >>,
                    <<temp < Dec(3, 10), <<620, 660, 600>> >>,
                    <<call.args.moisture < Dec(22, 100), <<800, 720, 450>> >>,
                    <<call.args.moisture < Dec(5, 10), <<220, 560, 280>> >>,
                    <<TRUE, <<80, 430, 220>> >> >>
    IN /\ \A i \in DOMAIN bands :
            (bands[i][1] /\ \A j \in 1..(i - 1) : ~bands[j][1]) =>
              call.result = bands[i][2]
       /\ h < Dec(4, 100) =>
            call.result = (IF h < -Dec(45, 100) THEN <<20, 50, 120>>
                           ELSE IF h < -Dec(2, 10) THEN <<30, 100, 220>>
                           ELSE IF h < -Dec(2, 100) THEN <<60, 220, 350>>
                           ELSE <<780, 720, 540>>)
       /\ h > Dec(85, 100) => call.result = <<900, 920, 960>>

\* A height in both the snow and the rock band, at the equator, came back
\* as snow.
FirstBandWinsWitness ==
  /\ call.op = "color_from_height" /\ call.pc = "returned"
  /\ call.args.height = Mul(Dec(9, 10), HEIGHT_AMPLITUDE)
  /\ call.args.dir = <<One, 0, 0>>
  /\ call.result = <<900, 920, 960>>

\* C13.  Every generate_mesh call (one per Terrain::new and per
\* Terrain::randomize) draws six u32 values from the rng, assigned in the
\* order they are drawn to the continent, hill, mountain, detail, moisture
\* and warp seed, all of them before anything of a vertex is computed, and
\* draws nothing after them: after n calls the rng has yielded 6 n values.
SixDrawsPerGeneration ==
  /\ gm.pc = "idle" => gm.rng = 6 * gm.calls
  /\ gm.pc = "seed" =>
       /\ gm.rng = 6 * (gm.calls - 1) + Len(gm.seeds)
       /\ Len(gm.seeds) < 6
       /\ gm.heights = <<>> /\ gm.positions = <<>> /\ gm.vertices = <<>>
  /\ gm.pc \notin {"idle", "seed"} =>
       /\ gm.rng = 6 * gm.calls
       /\ Len(gm.seeds) = 6
       /\ gm.seeds = gm.yield

\* A second generate_mesh call has returned and the rng has yielded twelve
\* values.
SixDrawsPerGenerationWitness ==
  /\ gm.pc = "done"
  /\ gm.calls = 2
  /\ gm.rng = 12
  /\ gm.seeds = SeedTable[2]

InUnit(x) == ~x.nan /\ x.v >= 0 /\ x.v <= One

RotationOfLastToggle ==
  state.toggle_log.dir # <<>> =>
    state.map_rotation = RotationFor(state.toggle_log.dir[1])

\* C16, amended.  map_rotation is 0 until the first toggle to the flat map,
\* and from then on PI - atan2(dir.z, dir.x) for the camera direction at the
\* last toggle to the flat map: a toggle back to the globe keeps it, and so
\* do update, the wheel and the mouse.
RotationOfLastFlatToggle ==
  IF state.toggle_log.flat_dir = <<>> THEN state.map_rotation = 0
  ELSE state.map_rotation = RotationFor(state.toggle_log.flat_dir[1])

\* The projection went to the flat map, the camera turned and moved in,
\* and the projection went back to the globe: the rotation is still that of
\* the toggle to the flat map.
RotationOfLastFlatToggleWitness ==
  /\ state.toggle_log.flat_dir # <<>>
  /\ state.toggle_log.dir # state.toggle_log.flat_dir
  /\ state.map_target = 0
  /\ state.map_rotation = RotationFor(state.toggle_log.flat_dir[1])
  /\ state.map_rotation # RotationFor(state.toggle_log.dir[1])
  /\ state.input.orbit_radius.v < VLength(StartPosition)

\* On coordinates within the i32 range sample_noise_3d on wide coordinates
\* returns what sample_noise_3d returns.
SampleNoiseAgrees ==
  (/\ call.op = "sample_noise_3d" /\ call.pc = "returned"
   /\ call.args.x \in NearCoords /\ call.args.y \in NearCoords /\ call.args.z \in NearCoords) =>
    call.result.value =
      <<sample_noise_3d(call.args.x[2] * One + call.args.x[3] + call.args.x[1] * 65536 * One,
                        call.args.y[2] * One + call.args.y[3] + call.args.y[1] * 65536 * One,
                        call.args.z[2] * One + call.args.z[3] + call.args.z[1] * 65536 * One,
                        call.args.seed)>>

\* C17.  sample_noise_3d returns a value, with no integer overflow and no
\* panic, for every finite (x, y, z), coordinates at or beyond the ends of
\* the i32 range included.
NoiseTotal ==
  (call.op = "sample_noise_3d" /\ call.pc = "returned") =>
    /\ ~call.result.overflowed
    /\ ~call.result.panicked
    /\ call.result.value # <<>>

\* hash3 worked out by hand from its formula in 32-bit wrapping arithmetic:
\* the arguments, the integer n as <<high half, low half>> and the result
\* in thousandths.
Hash3Vectors ==
  {[args |-> [x |-> -1, y |-> -3, z |-> -1, seed |-> <<0, 0>>],
    n |-> <<13577, 19561>>, value |-> -586],
   [args |-> [x |-> 7, y |-> 2, z |-> 5, seed |-> <<65535, 65535>>],
    n |-> <<41903, 34935>>, value |-> 279],
   [args |-> [x |-> I32Min, y |-> 0, z |-> -1, seed |-> <<0, 0>>],
    n |-> <<31635, 22346>>, value |-> -35],
   [args |-> [x |-> I32Max, y |-> -3, z |-> 5, seed |-> <<65535, 65535>>],
    n |-> <<41013, 8528>>, value |-> 252],
   [args |-> [x |-> 0, y |-> 0, z |-> 0, seed |-> <<0, 0>>],
    n |-> <<0, 0>>, value |-> -One],
   [args |-> [x |-> -1, y |-> 0, z |-> -1, seed |-> <<65535, 65535>>],
    n |-> <<15962, 56712>>, value |-> -513]}

\* C18.  hash3 is a function of (x, y, z, seed) in wrapping 32-bit
\* arithmetic: for every lattice point, negative coordinates included, and
\* every seed the integer n is within [0, 2^32 - 1] (both halves within
\* [0, 65535]), the result is within [-1, 1], the result is that of the
\* formula, and a call with the same arguments returns the same.
Hash3InRange ==
  (call.op = "hash3" /\ call.pc = "returned") =>
    /\ call.result.n[1] \in 0..65535 /\ call.result.n[2] \in 0..65535
    /\ call.result.value >= -One /\ call.result.value <= One
    /\ \A v \in Hash3Vectors :
         call.args = v.args => call.result.n = v.n /\ call.result.value = v.value
    /\ call.result.value = hash3(call.args.x, call.args.y, call.args.z, call.args.seed)

\* hash3 has returned at a lattice point with negative coordinates, one of
\* them i32::MIN, with the value worked out by hand.
Hash3InRangeWitness ==
  /\ call.op = "hash3" /\ call.pc = "returned"
  /\ call.args = [x |-> I32Min, y |-> 0, z |-> -1, seed |-> <<0, 0>>]
  /\ call.result.n = <<31635, 22346>>
  /\ call.result.value = -35

\* Twice the signed area of triangle t in the (column, row) coordinates of
\* a grid lon vertices wide.
Orientation(t, lon) ==
  ((t[2] % lon) - (t[1] % lon)) * ((t[3] \div lon) - (t[1] \div lon))
    - ((t[3] % lon) - (t[1] % lon)) * ((t[2] \div lon) - (t[1] \div lon))

\* The index list holds, quad after quad in row-major order, the triangles
\* (i0, i1, i2) and (i1, i3, i2) of the quad: each of three distinct
\* vertices, sharing i1 and i2 and nothing else, and wound the same way.
QuadsWound(indices, lon) ==
  /\ Len(indices) % 6 = 0
  /\ \A q \in 0..((Len(indices) \div 6) - 1) :
       LET i0 == (q \div (lon - 1)) * lon + (q % (lon - 1))
           t1 == <<indices[6 * q + 1], indices[6 * q + 2], indices[6 * q + 3]>>
           t2 == <<indices[6 * q + 4], indices[6 * q + 5], indices[6 * q + 6]>>
       IN /\ t1 = <<i0, i0 + 1, i0 + lon>>
          /\ t2 = <<i0 + 1, i0 + lon + 1, i0 + lon>>
          /\ Cardinality({t1[1], t1[2], t1[3]}) = 3
          /\ Cardinality({t2[1], t2[2], t2[3]}) = 3
          /\ {t1[1], t1[2], t1[3]} \cap {t2[1], t2[2], t2[3]} = {i0 + 1, i0 + lon}
          /\ Orientation(t1, lon) > 0
          /\ Orientation(t2, lon) > 0

\* C19.  For every quad (z, x) the index loops of generate_mesh and of
\* generate_sphere emit the two triangles (i0, i1, i2) and (i1, i3, i2)
\* with i0 = z * LON + x, i1 = i0 + 1, i2 = i0 + LON, i3 = i2 + 1: three
\* distinct vertices each, the diagonal i1-i2 shared, and every triangle of
\* the terrain mesh and of the water sphere of the same orientation sign in
\* (column, row) coordinates.
WindingConsistent ==
  /\ gm.pc \in {"index", "return", "done"} => QuadsWound(gm.indices, LON_POINTS)
  /\ gm.pc \in {"return", "done"} =>
       Len(gm.indices) = 6 * (LAT_POINTS - 1) * (LON_POINTS - 1)
  /\ QuadsWound(state.terrain.index_buffer, LON_POINTS)
  /\ Len(state.terrain.index_buffer) = 6 * (LAT_POINTS - 1) * (LON_POINTS - 1)
  /\ QuadsWound(state.water.index_buffer, WATER_LON)
  /\ Len(state.water.index_buffer) = 6 * (WATER_RES - 1) * (WATER_LON - 1)

\* generate_mesh has returned its indices, the last quad's among them, and
\* the water's index buffer ends with its last quad.
WindingConsistentWitness ==
  /\ gm.pc = "done"
  /\ SubSeq(gm.result.indices, Len(gm.result.indices) - 5, Len(gm.result.indices))
       = <<VertexCount - LON_POINTS - 2, VertexCount - LON_POINTS - 1, VertexCount - 2,
           VertexCount - LON_POINTS - 1, VertexCount - 1, VertexCount - 2>>
  /\ SubSeq(state.water.index_buffer, Len(state.water.index_buffer) - 5,
            Len(state.water.index_buffer))
       = <<WATER_RES * WATER_LON - WATER_LON - 2, WATER_RES * WATER_LON - WATER_LON - 1,
           WATER_RES * WATER_LON - 2, WATER_RES * WATER_LON - WATER_LON - 1,
           WATER_RES * WATER_LON - 1, WATER_RES * WATER_LON - 2>>

\* The cross product of (right - left) and (up - down) at the interior
\* vertex (z, x) of a position array.
TangentCross(positions, z, x) ==
  Cross(VSub(positions[Idx(z, IF x = LON_POINTS - 1 THEN 1 ELSE x + 1)],
             positions[Idx(z, IF x = 0 THEN LON_POINTS - 2 ELSE x - 1)]),
        VSub(positions[Idx(z + 1, x)], positions[Idx(z - 1, x)]))

\* C20.  The normal of an interior vertex is the normalized cross product
\* of (right - left) and (up - down) when that is non-zero, and the
\* vertex's own radial direction when it is zero; no vertex of a generated
\* mesh carries a zero normal.
NormalFallback ==
  /\ (call.op = "normal" /\ call.pc = "returned") =>
       /\ IF NormalizeOrZero(TangentCross(call.args.positions, call.args.z, call.args.x)) # VZero
          THEN call.result
                 = NormalizeOrZero(TangentCross(call.args.positions, call.args.z, call.args.x))
          ELSE call.result
                 = NormalizeOrZero(call.args.positions[Idx(call.args.z, call.args.x)])
       /\ call.result # VZero
  /\ \A s \in SeedDraws, i \in 0..(VertexCount - 1) : MeshOf[s].vertices[i].normal # VZero
  /\ \A i \in 0..(VertexCount - 1) : state.terrain.vertex_buffer[i].normal # VZero

\* The normal loop met a zero cross product (every neighbour at one point)
\* and stored the radial direction.
NormalFallbackWitness ==
  /\ call.op = "normal" /\ call.pc = "returned"
  /\ TangentCross(call.args.positions, call.args.z, call.args.x) = VZero
  /\ call.args.positions[Idx(call.args.z, call.args.x)] = <<WORLD_RADIUS, 0, 0>>
  /\ call.result = <<One, 0, 0>>

\* C21.  Every ocean-branch terrain vertex lies below the water surface in
\* both projections: its radius WORLD_RADIUS + elevation is smaller than
\* the radius of the water sphere (that of the sphere's first vertex, at
\* the pole), and its flat height, the elevation, is smaller than the
\* water's flat height.
OceanBelowWater ==
  (hs.pc = "returned" /\ BaseFromNoise(hs.noise) <= 0) =>
    /\ WORLD_RADIUS + hs.height < state.water.vertex_buffer[0].pos[2]
    /\ state.water.vertex_buffer[0].pos[2] = WORLD_RADIUS + WATER_LEVEL - GLOBE_WATER_OFFSET
    /\ hs.height < state.water.vertex_buffer[0].flat_pos[3]
    /\ state.water.vertex_buffer[0].flat_pos[3] = WATER_LEVEL - FLAT_WATER_OFFSET

\* The land branch of height_for_dir was taken by the call that returned.
LandBranch == hs.pc = "returned" /\ Mul(BaseFromNoise(hs.noise), HEIGHT_AMPLITUDE) > 0

\* C22 as stated.  Whenever height_for_dir takes the land branch, the
\* elevation it returns is strictly greater than WATER_LEVEL, whatever the
\* hills, ridges and detail are.
LandAboveWater == LandBranch => hs.height > WATER_LEVEL

\* C22, amended.  Whenever height_for_dir takes the land branch, the
\* elevation it returns is greater than -0.07 * HEIGHT_AMPLITUDE, and it is
\* greater than WATER_LEVEL when the detail sample is not negative: only a
\* negative detail takes a land sample to the water level or below.
LandAboveDetailFloor ==
  LandBranch =>
    /\ hs.height > -Mul(Dec(7, 100), HEIGHT_AMPLITUDE)
    /\ hs.noise.detail >= 0 => hs.height > WATER_LEVEL

\* A land sample returned at the water level or below, and one returned
\* above it with a negative detail.
LandAboveDetailFloorWitness ==
  /\ LandBranch
  /\ hs.noise.detail < 0
  /\ hs.height <= WATER_LEVEL

\* x lies between a and b, inclusive, whichever of the two is the larger.
Between(a, x, b) == Min(a, b) <= x /\ x <= Max(a, b)

\* State::update after dt seconds moves map_blend towards the map_target it
\* blends with, no further than that target, and not at all when dt is 0.
UpdateApproaches(dt) ==
  LET updated == update(state, SeedTable[1], dt)
  IN /\ Between(state.map_blend, updated.map_blend, updated.map_target)
     /\ Abs(updated.map_target - updated.map_blend)
          <= Abs(updated.map_target - state.map_blend)
     /\ dt = 0 => updated.map_blend = state.map_blend

\* C23.  On every State::update with dt >= 0 the new map_blend lies between
\* the old map_blend and map_target, inclusive: the distance to the target
\* never grows, the blend never passes the target, and dt = 0 leaves the
\* blend as it was.  Stated of the update of every frame time from every
\* state the program reaches.
BlendApproachesTarget == \A dt \in FrameTimes : UpdateApproaches(dt)

\* An update has left the blend part of the way to a target of 1.0, and the
\* next one-second update takes it strictly closer.
BlendApproachesTargetWitness ==
  /\ frame.rendered
  /\ state.map_target = One
  /\ state.map_blend > 0 /\ state.map_blend < One
  /\ ~state.input.toggle_map
  /\ update(state, SeedTable[1], One).map_blend > state.map_blend

\* map_target is 0.0 or 1.0, one toggle_map flips it and two restore it.
MapTargetFlips ==
  /\ state.map_target \in {0, One}
  /\ toggle_map(state).map_target = One - state.map_target
  /\ toggle_map(toggle_map(state)).map_target = state.map_target

\* A step changes map_target only by toggling: it changes only when the M
\* key's flag is taken or the overlay's Map button is clicked, and a step
\* that takes the flag without a click of the button flips it.
MapTargetStep ==
  LET taken == state.input.toggle_map /\ ~state'.input.toggle_map
  IN /\ state'.map_target \in {state.map_target, One - state.map_target}
     /\ state'.map_target # state.map_target => taken \/ frame'.ui.toggle_map
     /\ (taken /\ ~frame'.ui.toggle_map) => state'.map_target = One - state.map_target

\* C24.  map_target is always exactly 0.0 or 1.0: it starts at 0.0, every
\* toggle_map flips it, two toggles restore it, and nothing but a toggle
\* changes it.
MapTargetBinary ==
  /\ StateNew(SeedTable[1], DefaultSettings).map_target = 0
  /\ [](MapTargetFlips)
  /\ [][MapTargetStep]_vars

\* The projection was toggled to the flat map and back to the globe, and
\* the blend is on its way back.
MapTargetBinaryWitness ==
  /\ state.toggle_log.flat_dir # <<>>
  /\ state.map_target = 0
  /\ state.map_blend > 0

\* take_randomize and take_toggle_map return the flag and leave it false, a
\* release of R or M leaves both flags alone, a second press of R or M adds
\* nothing to the first, and State::update runs Terrain::randomize (one
\* staged write) once if the randomize flag is set and not at all if it is
\* not, toggles the projection once if the toggle_map flag is set, and
\* leaves both flags false, so that the update after it does neither.
FlagsTaken ==
  LET inp     == state.input
      r       == take_randomize(inp)
      t       == take_toggle_map(inp)
      updated == update(state, SeedTable[1], 100 * One)
      again   == update(updated, SeedTable[1], 100 * One)
  IN /\ r[1] = inp.randomize /\ ~r[2].randomize /\ ~take_randomize(r[2])[1]
     /\ t[1] = inp.toggle_map /\ ~t[2].toggle_map /\ ~take_toggle_map(t[2])[1]
     /\ \A key \in Keys :
          /\ handle_key(inp, key, FALSE) = inp
          /\ handle_key(handle_key(inp, key, TRUE), key, TRUE) = handle_key(inp, key, TRUE)
     /\ handle_key(inp, "KeyR", TRUE).randomize
     /\ handle_key(inp, "KeyM", TRUE).toggle_map
     /\ Len(updated.queue) = Len(state.queue) + (IF inp.randomize THEN 1 ELSE 0)
     /\ updated.map_target = IF inp.toggle_map THEN One - state.map_target
                             ELSE state.map_target
     /\ ~updated.input.randomize /\ ~updated.input.toggle_map
     /\ again.queue = updated.queue
     /\ again.map_target = updated.map_target

\* A flag goes up only by a press of its key.
FlagsSetByPress ==
  /\ (state'.input.randomize /\ ~state.input.randomize) =>
       state' = [state EXCEPT !.input = handle_key(@, "KeyR", TRUE)]
  /\ (state'.input.toggle_map /\ ~state.input.toggle_map) =>
       state' = [state EXCEPT !.input = handle_key(@, "KeyM", TRUE)]

\* C25.  The randomize and toggle_map flags are read-and-clear: the take
\* functions return true at most once per set and leave the flag false; any
\* number of presses of R between two updates causes exactly one
\* Terrain::randomize in the next update and none in later updates until R
\* is pressed again, likewise M and toggle_map; a key release never sets
\* either flag.
FlagsReadAndClear == [](FlagsTaken) /\ [][FlagsSetByPress]_vars

\* R and M were pressed and an update whose frame was not rendered has
\* taken both flags: one write is staged, the projection is on its way to
\* the flat map, and both flags are down.
FlagsReadAndClearWitness ==
  /\ ~frame.rendered
  /\ Len(state.queue) = 1
  /\ state.map_target = One
  /\ ~state.input.randomize /\ ~state.input.toggle_map

\* An orbit radius that is a number within [MinOrbit, MaxOrbit].
InOrbit(r) == ~r.nan /\ r.v >= MinOrbit /\ r.v <= MaxOrbit

\* handle_scroll on inp and delta leaves orbit_radius within the zoom limits
\* and within [0.5, 1.5] times what it was (to the thousandth), and is
\* reported handled; a delta of 0 changes nothing and is reported unhandled.
ScrollWithinLimits(inp, delta) ==
  LET out == handle_scroll(inp, delta)
      old == inp.orbit_radius
      new == out[2].orbit_radius
  IN IF delta.y = F32(0) THEN out = <<FALSE, inp>>
     ELSE /\ out[1]
          /\ InOrbit(new)
          /\ 2 * new.v >= old.v - 1
          /\ 2 * new.v <= 3 * old.v + 1

\* handle_scroll with a NaN delta, or on an orbit_radius that is NaN already,
\* leaves orbit_radius NaN and is reported handled, unless the delta is 0.
ScrollKeepsNaN(inp, delta) ==
  LET out == handle_scroll(inp, delta)
  IN IF delta.y = F32(0) THEN out = <<FALSE, inp>>
     ELSE out[1] /\ out[2].orbit_radius.nan

OrbitState ==
  /\ state.input.orbit_radius.nan \/ InOrbit(state.input.orbit_radius)
  /\ \A delta \in WheelDeltas :
       IF delta.y.nan \/ state.input.orbit_radius.nan
       THEN ScrollKeepsNaN(state.input, delta)
       ELSE ScrollWithinLimits(state.input, delta)

\* orbit_radius changes by handle_scroll alone.
OrbitStep ==
  state'.input.orbit_radius # state.input.orbit_radius =>
    \E delta \in WheelDeltas :
      state'.input.orbit_radius = handle_scroll(state.input, delta)[2].orbit_radius

SameMeridian(x1, x2) == x1 % (LON_POINTS - 1) = x2 % (LON_POINTS - 1)

\* The neighbour indices of the iteration at (z, x) of an interior row: left
\* and right are in row z, down and up in the rows next to it and in column
\* x, none of x - 1 and z - 1 falls below 0, all four are indices of
\* positions, and neither longitude neighbour is on the meridian of x.
NeighboursInside(z, x) ==
  LET nb == NormalNeighbours(z, x)
  IN /\ Len(nb) = 4
     /\ \A k \in 1..4 : nb[k] >= 0 /\ nb[k] < VertexCount /\ nb[k] \in DOMAIN gm.positions
     /\ nb[1] \div LON_POINTS = z /\ nb[2] \div LON_POINTS = z
     /\ nb[3] = Idx(z - 1, x) /\ z - 1 >= 0
     /\ nb[4] = Idx(z + 1, x) /\ z + 1 <= LAT_POINTS - 1
     /\ x = 0 => nb[1] = Idx(z, LON_POINTS - 2)
     /\ x > 0 => nb[1] = Idx(z, x - 1) /\ x - 1 >= 0
     /\ x = LON_POINTS - 1 => nb[2] = Idx(z, 1)
     /\ x < LON_POINTS - 1 => nb[2] = Idx(z, x + 1)
     /\ ~SameMeridian(nb[1] % LON_POINTS, x)
     /\ ~SameMeridian(nb[2] % LON_POINTS, x)
     /\ {nb[k] : k \in 1..4} \subseteq gm.reads[Idx(z, x)]

\* C27.  Every index generate_mesh emits is smaller than the vertex count
\* LAT_POINTS * LON_POINTS, and every neighbour index the normal pass reads
\* (left, right, down, up, column 0 wrapping to LON_POINTS - 2 and column
\* LON_POINTS - 1 to 1) is inside the positions array, with no underflow of
\* x - 1 or z - 1, so that the duplicated seam vertex is never its own
\* longitude neighbour.
MeshIndicesInside ==
  /\ \A i \in DOMAIN gm.indices : gm.indices[i] >= 0 /\ gm.indices[i] < VertexCount
  /\ gm.pc \in {"return", "done"} =>
       \A i \in DOMAIN gm.indices : gm.indices[i] \in DOMAIN gm.vertices
  /\ \A idx \in DOMAIN gm.reads :
       gm.reads[idx] # {} =>
         /\ gm.reads[idx] \subseteq DOMAIN gm.positions
         /\ (idx \div LON_POINTS \in 1..(LAT_POINTS - 2)) =>
              NeighboursInside(idx \div LON_POINTS, idx % LON_POINTS)

\* generate_mesh is about to return: the last index emitted is that of the
\* last vertex, and the normal pass has read column LON_POINTS - 2 for
\* column 0 and column 1 for column LON_POINTS - 1.
MeshIndicesInsideWitness ==
  /\ gm.pc = "return"
  /\ Len(gm.indices) = 6 * (LAT_POINTS - 1) * (LON_POINTS - 1)
  /\ \E i \in DOMAIN gm.indices : gm.indices[i] = VertexCount - 1
  /\ Idx(1, LON_POINTS - 2) \in gm.reads[Idx(1, 0)]
  /\ Idx(1, 1) \in gm.reads[Idx(1, LON_POINTS - 1)]

=============================================================================
